---- MODULE Spec2Model ----
(***************************************************************************)
(* A model of synkrotron's difference engine (src/src/synkrotron.py):      *)
(* the tree walker Repo.collect with its exclude/include matcher, and the  *)
(* reconciliation Diff.compute with Diff._compare_stats.                   *)
(*                                                                         *)
(* Strings (paths, patterns) are sequences of one-character strings, so    *)
(* that splitting, joining, prefix tests, glob matching and the code-point *)
(* order used by sorted() are computed rather than assumed.                *)
(* Modification times are counted in half seconds, so that st_mtime keeps  *)
(* a fractional part.                                                      *)
(***************************************************************************)
EXTENDS Integers, Sequences, FiniteSets, TLC

VARIABLES
    fs_local,      \* the local directory tree:  path -> [stat, hash]
    fs_remote,     \* the remote directory tree: path -> [stat, hash]
    exclude,       \* Repo.exclude as given to the constructor (both repos)
    include,       \* Repo.include as given to the constructor (both repos)
    rel_path,      \* Repo.rel_path (both repos)
    ignore_time,   \* Diff.ignore_time
    content,       \* Diff.content
    modify_window, \* Diff.modify_window (seconds)
    stats_local,   \* the EntryMap collected from the local repo
    stats_remote,  \* the EntryMap collected from the remote repo
    list,          \* Diff.list (main: the lists of its passes, one after another)
    pc,            \* "new", "collected", "computed", "raised", "copied", "copy_raised"
    clear_paths,   \* main: the 'clear' option of the remote, split at ':'
    fs_clear,      \* main: the tree under the 'clear' directory of the remote
    passes,        \* main: the rel_path of each Diff it processed
    fs_delta,      \* the tree of the delta directory given to Diff.push
    call,          \* the arguments of the last Diff.push or Diff.pull
    deleted,       \* the paths the delete step of _copy removed, in order
    rsync,         \* the invocations of rsync: [dry_run, dst, files]
    cache,         \* Remote._cache: <<encrypted -> clear, clear -> encrypted>>
    mapped,        \* the last call of encrypt_names or decrypt_names
    remote,        \* a Remote object and its mount points
    rcall,         \* the last call of Remote.mount or Remote.umount
    run,           \* a run of main: its arguments, position and outcome
    tasks          \* Diff.compute: the repos' sources and the worker tasks

\* the trees and the configuration, which no operation of the walker or of
\* Diff.compute changes
confVars == <<fs_local, fs_remote, exclude, include, rel_path, ignore_time,
              content, modify_window, clear_paths, fs_clear>>

\* what Diff.push and Diff.pull set
copyVars == <<fs_delta, call, deleted, rsync>>

\* the name cache of the remote and the last call of encrypt_names or
\* decrypt_names
codecVars == <<cache, mapped>>

\* the Remote object that main mounts and the run of main
runVars == <<remote, rcall, run>>

vars == <<fs_local, fs_remote, exclude, include, rel_path, ignore_time,
          content, modify_window, stats_local, stats_remote, list, pc,
          clear_paths, fs_clear, passes, fs_delta, call, deleted, rsync,
          cache, mapped, remote, rcall, run, tasks>>

-----------------------------------------------------------------------------
(* Bounds of the model. *)

MaxMtime == 4     \* modification times 0 .. MaxMtime half seconds
MaxSize == 1      \* file sizes 0 .. MaxSize
MaxWindow == 1    \* modify_window 0 .. MaxWindow seconds
MaxHash == 2      \* content hashes 1 .. MaxHash (0: the file cannot be read)

-----------------------------------------------------------------------------
(* Strings as sequences of characters. *)

\* the code point of a character (Python compares str by code point)
Ord(c) ==
    CASE c = "*" -> 42
      [] c = "-" -> 45
      [] c = "." -> 46
      [] c = "/" -> 47
      [] c = "?" -> 63
      [] c = "a" -> 97
      [] c = "b" -> 98
      [] c = "c" -> 99
      [] c = "k" -> 107
      [] c = "n" -> 110
      [] c = "o" -> 111
      [] c = "r" -> 114
      [] c = "s" -> 115
      [] c = "t" -> 116
      [] OTHER -> 121      \* "y"

RECURSIVE StrLess(_, _)
\* s < t for two str
StrLess(s, t) ==
    IF s = <<>> THEN t # <<>>
    ELSE IF t = <<>> THEN FALSE
    ELSE IF Head(s) = Head(t) THEN StrLess(Tail(s), Tail(t))
    ELSE Ord(Head(s)) < Ord(Head(t))

RECURSIVE SortedSeq_descending(_)
\* SortedSeq with the order reversed
SortedSeq_descending(S) ==
    IF S = {} THEN <<>>
    ELSE LET m == CHOOSE x \in S : \A y \in S : y = x \/ StrLess(y, x)
         IN  <<m>> \o SortedSeq_descending(S \ {m})

RECURSIVE SortedSeq(_)
\* sorted(S) for a set of str
SortedSeq(S) ==
    IF S = {} THEN <<>>
    ELSE LET m == CHOOSE x \in S : \A y \in S : y = x \/ StrLess(x, y)
         IN  <<m>> \o SortedSeq(S \ {m})

\* s.startswith(p)
StartsWith(s, p) == Len(p) <= Len(s) /\ SubSeq(s, 1, Len(p)) = p

\* s.count(c)
Count(s, c) == Cardinality({i \in 1..Len(s) : s[i] = c})

Dot == <<".">>
Slash == <<"/">>

-----------------------------------------------------------------------------
(* Entries.  A stat is the tuple (file_type, st_size, st_mtime) built by    *)
(* info() in Repo._collect_local.                                           *)

Kind(st) == st[1]
Size(st) == st[2]
Mtime(st) == st[3]

Abs(n) == IF n < 0 THEN -n ELSE n

\* IntOfHalves as math.floor instead of int
IntOfHalves_floor(n) == n \div 2

\* int(x) of a difference of n half seconds: truncation towards zero
IntOfHalves(n) == IF n >= 0 THEN n \div 2 ELSE -((-n) \div 2)

\* diff_time of _compare_stats: the truncated difference, 0 inside the window
DiffTime(stat_src, stat_dst, window) ==
    LET d == IntOfHalves(Mtime(stat_src) - Mtime(stat_dst))
    IN  IF Abs(d) < window THEN 0 ELSE d

\* TimeCmp with the two signs exchanged
TimeCmp_exchanged(stat_src, stat_dst, diff_time) ==
    IF diff_time > 0 THEN <<stat_dst, "pull", "remote file is newer">>
    ELSE IF diff_time < 0 THEN <<stat_src, "push", "local file is newer">>
    ELSE <<<<stat_src, stat_dst>>, "None", "files have the same timestamp">>

\* time_cmp of _compare_stats: (witness, operation, text)
TimeCmp(stat_src, stat_dst, diff_time) ==
    IF diff_time < 0 THEN <<stat_dst, "pull", "remote file is newer">>
    ELSE IF diff_time > 0 THEN <<stat_src, "push", "local file is newer">>
    ELSE <<<<stat_src, stat_dst>>, "None", "files have the same timestamp">>

NoItem == [res |-> "none"]
Raise == [res |-> "raise"]
Item(stat, op, info) == [res |-> "item", stat |-> stat, op |-> op, info |-> info]

\* CompareStats naming the step that found the difference whatever the times
CompareStats_stepAsOp(stat_src, stat_dst, hash_local, hash_remote, ig, ct, window) ==
    IF Kind(stat_src) = "d" /\ Kind(stat_dst) = "d" THEN NoItem
    ELSE
      LET diff_time == DiffTime(stat_src, stat_dst, window)
          time_cmp == TimeCmp(stat_src, stat_dst, diff_time)
      IN  IF ~ig /\ diff_time # 0
            THEN Item(time_cmp[1], time_cmp[2], <<time_cmp[3]>>)
          ELSE IF Kind(stat_src) # Kind(stat_dst)
            THEN Item(<<stat_src, stat_dst>>, "type",
                      <<"files have different types", time_cmp[3]>>)
          ELSE IF Size(stat_src) # Size(stat_dst)
            THEN Raise
          ELSE IF ct
            THEN IF hash_local = 0 \/ hash_remote = 0 THEN Raise
                 ELSE IF hash_local # hash_remote
                   THEN Item(<<stat_src, stat_dst>>, "content",
                             <<"files have different content", time_cmp[3]>>)
                 ELSE NoItem
          ELSE NoItem

\* Diff._compare_stats(stat_src, stat_dst, file); hash_local and hash_remote
\* are what Repo.file_hash returns for the file on either side (0: it raises).
\* The 'size' branch reads file_types, which is bound only in the 'type'
\* branch, and so raises UnboundLocalError.
CompareStats(stat_src, stat_dst, hash_local, hash_remote, ig, ct, window) ==
    IF Kind(stat_src) = "d" /\ Kind(stat_dst) = "d" THEN NoItem
    ELSE
      LET diff_time == DiffTime(stat_src, stat_dst, window)
          time_cmp == TimeCmp(stat_src, stat_dst, diff_time)
          Op(what) == IF diff_time # 0 THEN time_cmp[2] ELSE what
      IN  IF ~ig /\ diff_time # 0
            THEN Item(time_cmp[1], time_cmp[2], <<time_cmp[3]>>)
          ELSE IF Kind(stat_src) # Kind(stat_dst)
            THEN Item(time_cmp[1], Op("type"),
                      <<"files have different types", time_cmp[3]>>)
          ELSE IF Size(stat_src) # Size(stat_dst)
            THEN Raise
          ELSE IF ct
            THEN IF hash_local = 0 \/ hash_remote = 0 THEN Raise
                 ELSE IF hash_local # hash_remote
                   THEN Item(time_cmp[1], Op("content"),
                             <<"files have different content", time_cmp[3]>>)
                 ELSE NoItem
          ELSE NoItem

RECURSIVE CompareLoop(_, _, _, _, _, _, _, _, _)
\* the loop over sorted(stats_local.items()) of Diff.compute: the list built
\* so far, and whether a comparison raised
CompareLoop(files, acc, sl, sr, hl, hr, ig, ct, window) ==
    IF files = <<>> THEN [list |-> acc, raised |-> FALSE]
    ELSE
      LET file_local == Head(files)
          stat_local == sl[file_local]
      IN  IF file_local \in DOMAIN sr
          THEN LET cmp == CompareStats(stat_local, sr[file_local],
                                       hl[file_local], hr[file_local],
                                       ig, ct, window)
               IN  IF cmp.res = "raise" THEN [list |-> acc, raised |-> TRUE]
                   ELSE IF cmp.res = "item"
                     THEN CompareLoop(Tail(files),
                            Append(acc, <<file_local, cmp.stat, cmp.op, cmp.info>>),
                            sl, sr, hl, hr, ig, ct, window)
                   ELSE CompareLoop(Tail(files), acc, sl, sr, hl, hr, ig, ct, window)
          ELSE CompareLoop(Tail(files),
                 Append(acc, <<file_local, stat_local, "push",
                               <<"remote file does not exist">>>>),
                 sl, sr, hl, hr, ig, ct, window)

\* Pulls marking its items 'push'
Pulls_asPush(sl, sr) ==
    LET fs == SortedSeq(DOMAIN sr \ DOMAIN sl)
    IN  [i \in 1..Len(fs) |-> <<fs[i], sr[fs[i]], "push",
                                <<"local file does not exist">>>>]

\* Pulls over every remote file, not only those missing locally
Pulls_allRemote(sl, sr) ==
    LET fs == SortedSeq(DOMAIN sr)
    IN  [i \in 1..Len(fs) |-> <<fs[i], sr[fs[i]], "pull",
                                <<"local file does not exist">>>>]

\* pulls of Diff.compute: the remote-only files, sorted
Pulls(sl, sr) ==
    LET fs == SortedSeq(DOMAIN sr \ DOMAIN sl)
    IN  [i \in 1..Len(fs) |-> <<fs[i], sr[fs[i]], "pull",
                                <<"local file does not exist">>>>]

\* Diff.compute after the two collects: self.list, and whether it raised
ComputeList(sl, sr, hl, hr, ig, ct, window) ==
    LET loop == CompareLoop(SortedSeq(DOMAIN sl), <<>>, sl, sr, hl, hr,
                            ig, ct, window)
    IN  IF loop.raised THEN loop
        ELSE [list |-> loop.list \o Pulls(sl, sr), raised |-> FALSE]

-----------------------------------------------------------------------------
(* os.path and fnmatch on POSIX. *)

RECURSIVE SplitOn(_, _)
\* s.split(c): the components of s between the occurrences of c
SplitOn(s, c) ==
    IF \A i \in 1..Len(s) : s[i] # c THEN <<s>>
    ELSE LET i == CHOOSE j \in 1..Len(s) :
                      s[j] = c /\ \A k \in 1..(j - 1) : s[k] # c
         IN  <<SubSeq(s, 1, i - 1)>> \o SplitOn(SubSeq(s, i + 1, Len(s)), c)

RECURSIVE JoinWith(_, _)
\* c.join(comps)
JoinWith(comps, c) ==
    IF comps = <<>> THEN <<>>
    ELSE IF Len(comps) = 1 THEN comps[1]
    ELSE comps[1] \o <<c>> \o JoinWith(Tail(comps), c)

RECURSIVE NormComps(_, _, _)
\* the loop of posixpath.normpath over the components
NormComps(comps, new_comps, initial_slashes) ==
    IF comps = <<>> THEN new_comps
    ELSE
      LET comp == Head(comps)
      IN  IF comp = <<>> \/ comp = Dot
            THEN NormComps(Tail(comps), new_comps, initial_slashes)
          ELSE IF \/ comp # <<".", ".">>
                  \/ (initial_slashes = 0 /\ new_comps = <<>>)
                  \/ (new_comps # <<>> /\ new_comps[Len(new_comps)] = <<".", ".">>)
            THEN NormComps(Tail(comps), Append(new_comps, comp), initial_slashes)
          ELSE IF new_comps # <<>>
            THEN NormComps(Tail(comps), SubSeq(new_comps, 1, Len(new_comps) - 1),
                           initial_slashes)
          ELSE NormComps(Tail(comps), new_comps, initial_slashes)

\* os.path.normpath(path)
NormPath(path) ==
    IF path = <<>> THEN Dot
    ELSE
      LET initial_slashes ==
              IF ~StartsWith(path, Slash) THEN 0
              ELSE IF StartsWith(path, <<"/", "/">>)
                      /\ ~StartsWith(path, <<"/", "/", "/">>) THEN 2
              ELSE 1
          joined == JoinWith(NormComps(SplitOn(path, "/"), <<>>, initial_slashes), "/")
          result == [i \in 1..initial_slashes |-> "/"] \o joined
      IN  IF result = <<>> THEN Dot ELSE result

\* os.path.join(a, b)
PathJoin(a, b) ==
    IF StartsWith(b, Slash) THEN b
    ELSE IF a = <<>> \/ a[Len(a)] = "/" THEN a \o b
    ELSE a \o Slash \o b

RECURSIVE RStripSlash(_)
\* s.rstrip('/')
RStripSlash(s) ==
    IF s # <<>> /\ s[Len(s)] = "/" THEN RStripSlash(SubSeq(s, 1, Len(s) - 1))
    ELSE s

\* os.path.split(p): <<head, tail>>
PathSplit(p) ==
    LET slashes == {j \in 1..Len(p) : p[j] = "/"}
        i == IF slashes = {} THEN 0
             ELSE CHOOSE j \in slashes : \A k \in slashes : k <= j
        head == SubSeq(p, 1, i)
        tail == SubSeq(p, i + 1, Len(p))
    IN  <<IF head # <<>> /\ (\E j \in 1..Len(head) : head[j] # "/")
            THEN RStripSlash(head) ELSE head,
          tail>>

\* os.path.dirname(p), os.path.basename(p)
DirName(p) == PathSplit(p)[1]
BaseName(p) == PathSplit(p)[2]

RECURSIVE FnMatch_starInComponent(_, _)
\* FnMatch with a '*' that stops at the path separator
FnMatch_starInComponent(name, pat) ==
    IF pat = <<>> THEN name = <<>>
    ELSE IF Head(pat) = "*"
      THEN \/ FnMatch_starInComponent(name, Tail(pat))
           \/ (name # <<>> /\ Head(name) # "/"
                 /\ FnMatch_starInComponent(Tail(name), pat))
    ELSE IF Head(pat) = "?"
      THEN name # <<>> /\ FnMatch_starInComponent(Tail(name), Tail(pat))
    ELSE /\ name # <<>> /\ Head(name) = Head(pat)
         /\ FnMatch_starInComponent(Tail(name), Tail(pat))

RECURSIVE FnMatch(_, _)
\* fnmatch.fnmatch(name, pat) for patterns of literals, '?' and '*': the
\* pattern is translated to a regular expression in which '*' is '.*' and
\* '?' is '.', with DOTALL, so both match '/' as any other character
FnMatch(name, pat) ==
    IF pat = <<>> THEN name = <<>>
    ELSE IF Head(pat) = "*"
      THEN FnMatch(name, Tail(pat)) \/ (name # <<>> /\ FnMatch(Tail(name), pat))
    ELSE IF Head(pat) = "?"
      THEN name # <<>> /\ FnMatch(Tail(name), Tail(pat))
    ELSE name # <<>> /\ Head(name) = Head(pat) /\ FnMatch(Tail(name), Tail(pat))

-----------------------------------------------------------------------------
(* Repo: patterns and the matcher. *)

DotSynkrotron == <<"/", ".", "s", "y", "n", "k", "r", "o", "t", "r", "o", "n">>

RECURSIVE MapNorm(_)
\* the list comprehensions of Repo.__init__: empty patterns dropped, the
\* others normalized
MapNorm(patterns) ==
    IF patterns = <<>> THEN <<>>
    ELSE IF Head(patterns) = <<>> THEN MapNorm(Tail(patterns))
    ELSE <<NormPath(Head(patterns))>> \o MapNorm(Tail(patterns))

\* self.exclude of Repo.__init__: the patterns normalized, '/.synkrotron' added
RepoExclude(excl) == MapNorm(excl) \o <<DotSynkrotron>>

\* self.include of Repo.__init__: leading slash removed, then normalized
RepoInclude(incl) ==
    MapNorm([i \in 1..Len(incl) |->
               IF incl[i] # <<>> /\ incl[i][1] = "/" THEN Tail(incl[i]) ELSE incl[i]])

RECURSIVE TailComponents(_, _, _)
\* the loop of match(): split the path n more times, collecting the tails
TailComponents(tmp_path, components, n) ==
    IF n = 0 THEN components
    ELSE LET sp == PathSplit(tmp_path)
         IN  TailComponents(sp[1], <<sp[2]>> \o components, n - 1)

\* Match comparing an unanchored pattern with the last component only
Match_lastComponent(path, pattern) ==
    IF StartsWith(pattern, Slash)
    THEN FnMatch(path, Tail(pattern))
    ELSE FnMatch(PathSplit(path)[2], pattern)

\* match(path, pattern) of Repo._ignore_files
Match(path, pattern) ==
    IF StartsWith(pattern, Slash)
    THEN FnMatch(path, Tail(pattern))
    ELSE LET sp == PathSplit(path)
             components == TailComponents(sp[1], <<sp[2]>>, Count(pattern, "/"))
         IN  FnMatch(JoinWith(components, "/"), pattern)

\* the include pattern cut to the depth of the path ("partial_pattern")
PartialPattern(pattern, path_depth) ==
    IF Count(pattern, "/") > path_depth
    THEN JoinWith(SubSeq(SplitOn(pattern, "/"), 1, path_depth + 1), "/")
    ELSE pattern

RECURSIVE FirstHit(_, _, _)
\* the loop over self.include of Repo._ignore_files, which breaks at the
\* first pattern whose partial pattern matches the path: its index, 0 if none
FirstHit(path, incl, i) ==
    IF i > Len(incl) THEN 0
    ELSE IF Match(path, Slash \o PartialPattern(incl[i], Count(path, "/"))) THEN i
    ELSE FirstHit(path, incl, i + 1)

\* whitelist_dirs after a path matched the include pattern: the path is
\* added when the pattern matched in full
Whitelisted(path, pattern, wl) ==
    IF PartialPattern(pattern, Count(path, "/")) = pattern
    THEN wl \cup {path} ELSE wl

\* the outcome of the include loop for a path, given the index FirstHit found
IncludeStep(path, incl, wl, i) ==
    IF i = 0 THEN [ignore |-> TRUE, wl |-> wl]
    ELSE [ignore |-> FALSE, wl |-> Whitelisted(path, incl[i], wl)]

\* the body of the loop of Repo._ignore_files for one path: whether the file
\* is ignored, and whitelist_dirs afterwards
IgnoreOne(path, excl, incl, wl) ==
    IF path = Dot THEN [ignore |-> FALSE, wl |-> wl]
    ELSE IF \E i \in 1..Len(excl) : Match(path, excl[i])
      THEN [ignore |-> TRUE, wl |-> wl]
    ELSE IF incl = <<>> THEN [ignore |-> FALSE, wl |-> wl]
    ELSE IF \E w \in wl : StartsWith(path, w) THEN [ignore |-> FALSE, wl |-> wl]
    ELSE IncludeStep(path, incl, wl, FirstHit(path, incl, 1))

\* one filename handled: it joins the ignored ones if the loop body said so
IgnoreNext(fn, one, acc) ==
    [ignored |-> acc.ignored \o (IF one.ignore THEN <<fn>> ELSE <<>>),
     wl |-> one.wl]

RECURSIVE IgnoreLoop(_, _, _, _, _)
\* the loop "for fn in filenames" of Repo._ignore_files
IgnoreLoop(dirpath, filenames, excl, incl, acc) ==
    IF filenames = <<>> THEN acc
    ELSE IgnoreLoop(dirpath, Tail(filenames), excl, incl,
           IgnoreNext(Head(filenames),
                      IgnoreOne(NormPath(PathJoin(dirpath, Head(filenames))),
                                excl, incl, acc.wl),
                      acc))

\* Repo._ignore_files(dirpath, filenames, whitelist_dirs): the filenames it
\* yields, and whitelist_dirs afterwards
IgnoreFiles(dirpath, filenames, excl, incl, wl) ==
    IF excl = <<>> /\ incl = <<>> THEN [ignored |-> <<>>, wl |-> wl]
    ELSE IgnoreLoop(dirpath, filenames, excl, incl, [ignored |-> <<>>, wl |-> wl])

-----------------------------------------------------------------------------
(* Repo: the walk.  A tree maps the normalized relative paths of a         *)
(* directory ("." is its root) to [stat, hash], the stat being what        *)
(* os.stat or os.lstat (preserve_links) reports.  A symbolic link that     *)
(* points to a directory has the directory's entries beneath it.           *)

Range(s) == {s[i] : i \in 1..Len(s)}

\* the parent directory of a path of a tree
Parent(p) == IF DirName(p) = <<>> THEN Dot ELSE DirName(p)

\* the names os.scandir lists in a directory
Children(fs, dir) == {p \in DOMAIN fs : p # Dot /\ Parent(p) = dir}

\* entry.is_dir() of os.walk, which follows symbolic links
IsDirEntry(fs, p) ==
    \/ Kind(fs[p].stat) = "d"
    \/ Kind(fs[p].stat) = "l" /\ Children(fs, p) # {}

\* names with the ignored ones deleted
Kept(names, ignored) == SelectSeq(names, LAMBDA n : n \notin Range(ignored))

\* the kept names yielded as paths after those yielded so far
Yielded(rel_dir, kept, wl, st) ==
    [out |-> st.out \o [i \in 1..Len(kept) |-> NormPath(PathJoin(rel_dir, kept[i]))],
     wl |-> wl,
     kept |-> kept]

\* "del names[...]" for what _ignore_files yielded, then the yields
KeptOf(rel_dir, names, ign, st) ==
    Yielded(rel_dir, Kept(names, ign.ignored), ign.wl, st)

\* one pass of "for names in (dirnames, filenames)": the paths yielded
YieldNames(rel_dir, names, excl, incl, st) ==
    KeptOf(rel_dir, names, IgnoreFiles(rel_dir, names, excl, incl, st.wl), st)

\* dirnames and filenames of os.walk for a directory, sorted
DirNames(fs, rel_dir) ==
    SortedSeq({BaseName(p) : p \in {q \in Children(fs, rel_dir) : IsDirEntry(fs, q)}})
FileNames(fs, rel_dir) ==
    SortedSeq({BaseName(p) : p \in {q \in Children(fs, rel_dir) : ~IsDirEntry(fs, q)}})

\* SubDirs descending into every directory, ignored or not
SubDirs_ignoredToo(fs, rel_dir, kept) ==
    SelectSeq([i \in 1..Len(DirNames(fs, rel_dir)) |->
                  NormPath(PathJoin(rel_dir, DirNames(fs, rel_dir)[i]))],
              LAMBDA p : Kind(fs[p].stat) = "d")

\* the directories os.walk descends into: those left in dirnames that are
\* not symbolic links
SubDirs(fs, rel_dir, kept) ==
    SelectSeq([i \in 1..Len(kept) |-> NormPath(PathJoin(rel_dir, kept[i]))],
              LAMBDA p : Kind(fs[p].stat) = "d")

RECURSIVE WalkDir(_, _, _, _, _)
RECURSIVE WalkDirs(_, _, _, _, _)
RECURSIVE Descend(_, _, _, _, _)
\* the body of the os.walk loop of _collect_local for one directory: the
\* pass over dirnames, then (Descend) the pass over filenames and os.walk's
\* descent into the directories left in dirnames
WalkDir(fs, rel_dir, excl, incl, st) ==
    Descend(fs, rel_dir, excl, incl,
            YieldNames(rel_dir, DirNames(fs, rel_dir), excl, incl, st))

Descend(fs, rel_dir, excl, incl, d) ==
    WalkDirs(fs, SubDirs(fs, rel_dir, d.kept), excl, incl,
             YieldNames(rel_dir, FileNames(fs, rel_dir), excl, incl, d))

WalkDirs(fs, dirs, excl, incl, st) ==
    IF dirs = <<>> THEN st
    ELSE WalkDirs(fs, Tail(dirs), excl, incl,
                  WalkDir(fs, Head(dirs), excl, incl, st))

\* _collect_local once the base is normalized and checked by _ignore_files
CollectFrom(fs, excl, incl, base, wl0) ==
    IF base \notin DOMAIN fs THEN <<>>
    ELSE IF wl0.ignored # <<>> THEN <<>>
    ELSE WalkDir(fs, base, excl, incl, [out |-> <<base>>, wl |-> wl0.wl]).out

\* Repo._collect_local: the paths in the order they are yielded
CollectLocal(fs, excl, incl, rel) ==
    CollectFrom(fs, excl, incl, NormPath(rel),
                IgnoreFiles(rel, <<Dot>>, excl, incl, {}))

\* info(file) raises: os.stat fails or the file is of no known type
InfoRaises(fs, p) == Kind(fs[p].stat) = "x"

\* the paths _collect_local yields when info can raise: nothing if it
\* raises for the base, else every path but those it raises for
Statted(fs, paths) ==
    IF paths # <<>> /\ InfoRaises(fs, paths[1]) THEN {}
    ELSE {p \in Range(paths) : ~InfoRaises(fs, p)}

\* the paths of the warnings _collect_local prints, in their order
Warned(fs, paths) ==
    IF paths # <<>> /\ InfoRaises(fs, paths[1]) THEN <<paths[1]>>
    ELSE SelectSeq(paths, LAMBDA p : InfoRaises(fs, p))

\* Repo.collect for a local directory: the dictionary path -> stat
Collect(fs, excl, incl, rel) ==
    [p \in Statted(fs, CollectLocal(fs, RepoExclude(excl), RepoInclude(incl), rel))
       |-> fs[p].stat]

\* what Repo.file_hash returns for the files of a tree
Hashes(fs) == [p \in DOMAIN fs |-> fs[p].hash]

-----------------------------------------------------------------------------
(* The trees and options the specifications start from. *)

Node(kind, size, mtime, hash) == [stat |-> <<kind, size, mtime>>, hash |-> hash]

\* a directory (its content cannot be hashed)
DirNode == Node("d", 0, 0, 0)

\* the entries within the bounds: directories and symbolic links of any
\* time, regular files of any size, time and content
AllNodes ==
    {Node(k, 0, m, IF k = "d" THEN 0 ELSE 1) : k \in {"d", "l"}, m \in 0..MaxMtime}
    \cup {Node("f", s, m, h) : s \in 0..MaxSize, m \in 0..MaxMtime, h \in 0..MaxHash}

\* a few files: the first, then one half a second newer, one a second
\* newer, one of another content, one of another size and one that cannot
\* be read
SomeFiles == {Node("f", 0, 0, 1), Node("f", 0, 1, 1), Node("f", 0, 2, 1),
              Node("f", 0, 0, 2), Node("f", 1, 0, 1), Node("f", 0, 0, 0)}

PathA == <<"a">>
PathAB == <<"a", "/", "b">>
PathB == <<"b">>
PathF == <<"f">>

\* a function from its pairs <<path, node>>
TreeOf(pairs) ==
    [p \in {x[1] : x \in pairs} |-> (CHOOSE x \in pairs : x[1] = p)[2]]

\* the trees over ".", "a", "a/b" and "b": "a" and "a/b" are files of
\* SomeFiles or directories, "b" is a directory
SomeTrees ==
    LET subA == {{}} \cup {{<<PathA, n>>} : n \in SomeFiles}
                \cup {{<<PathA, DirNode>>}}
                \cup {{<<PathA, DirNode>>, <<PathAB, n>>} :
                          n \in SomeFiles \cup {DirNode}}
        subB == {{}, {<<PathB, DirNode>>}}
    IN  {TreeOf({<<Dot, DirNode>>} \cup x \cup y) : x \in subA, y \in subB}

\* the trees that hold one entry "f"
OneFileTrees == {TreeOf({<<Dot, DirNode>>, <<PathF, n>>}) : n \in AllNodes}

\* no Remote object and no run of main
InitNoRun ==
    /\ remote = <<>>
    /\ rcall = [op |-> "none"]
    /\ run = [pc |-> "none"]

\* nothing collected or computed yet
InitIdle ==
    /\ stats_local = <<>>
    /\ stats_remote = <<>>
    /\ list = <<>>
    /\ pc = "new"
    /\ passes = <<>>
    /\ call = [op |-> "none"]
    /\ deleted = <<>>
    /\ rsync = <<>>
    /\ cache = <<<<>>, <<>>>>
    /\ mapped = [op |-> "none", clean |-> TRUE]
    /\ tasks = [phase |-> "none"]

\* nothing collected or computed yet, no Remote and no run of main
InitDiff == InitIdle /\ InitNoRun

\* a remote without clear paths, and no delta directory
InitNoClear ==
    /\ clear_paths = <<>>
    /\ fs_clear = <<>>
    /\ fs_delta = <<>>

\* two trees of several paths, compared under any options
Init ==
    /\ fs_local \in SomeTrees
    /\ fs_remote \in SomeTrees
    /\ exclude = <<>>
    /\ include = <<>>
    /\ rel_path \in {Dot, PathA}
    /\ ignore_time \in BOOLEAN
    /\ content \in BOOLEAN
    /\ modify_window \in 0..MaxWindow
    /\ InitNoClear
    /\ InitDiff

\* one path present on both sides, with any two entries, under any options
InitCmp ==
    /\ fs_local \in OneFileTrees
    /\ fs_remote \in OneFileTrees
    /\ exclude = <<>>
    /\ include = <<>>
    /\ rel_path = Dot
    /\ ignore_time \in BOOLEAN
    /\ content \in BOOLEAN
    /\ modify_window \in 0..MaxWindow
    /\ InitNoClear
    /\ InitDiff

Str_a_a == <<"a", "/", "a">>
Str_b_a == <<"b", "/", "a">>
Str_a_b_a == <<"a", "/", "b", "/", "a">>
Str_a_a_b == <<"a", "/", "a", "/", "b">>
Str_synkrotron == Tail(DotSynkrotron)

\* the paths of the trees that are walked
WalkPaths == {PathA, PathB, Str_a_a, PathAB, Str_b_a, Str_a_b_a, Str_a_a_b,
              Str_synkrotron}

\* the paths beneath a path
Beneath(S, p) == {q \in S : StartsWith(q, p \o Slash)}

\* the trees over WalkPaths: a path with entries beneath it is a directory
\* ("b" may also be a symbolic link to one), any other path is a file
WalkTrees ==
    LET closed == {S \in SUBSET WalkPaths :
                     \A q \in S : DirName(q) = <<>> \/ DirName(q) \in S}
        NodeAt(S, q, blink) ==
            IF Beneath(S, q) = {} THEN Node("f", 0, 0, 1)
            ELSE IF q = PathB /\ blink THEN Node("l", 0, 0, 1)
            ELSE DirNode
    IN  {[q \in S \cup {Dot} |-> IF q = Dot THEN DirNode ELSE NodeAt(S, q, blink)] :
            S \in closed, blink \in BOOLEAN}

\* exclude patterns without wildcards, one of them with a trailing slash
FixedPatterns == {Slash \o PathA, PathA, Slash \o PathAB, PathAB, PathB \o Slash,
                  Slash \o Str_b_a, Str_b_a, Str_a_b_a, Slash \o Str_a_a}

\* one tree, walked from its root or from a path in it, with no exclude
\* pattern, one or two
InitWalk ==
    /\ fs_local \in WalkTrees
    /\ fs_remote = TreeOf({<<Dot, DirNode>>})
    /\ exclude \in {<<>>} \cup {<<x>> : x \in FixedPatterns}
                   \cup {<<Slash \o PathAB, PathB>>}
    /\ include = <<>>
    /\ rel_path \in {Dot, PathA, PathAB}
    /\ ignore_time = FALSE
    /\ content = FALSE
    /\ modify_window = 0
    /\ InitNoClear
    /\ InitDiff

-----------------------------------------------------------------------------
(* Operations. *)

\* Diff.compute(): collect both repos, then compare
Compute ==
    /\ pc = "new"
    /\ stats_local' = Collect(fs_local, exclude, include, rel_path)
    /\ stats_remote' = Collect(fs_remote, exclude, include, rel_path)
    /\ list' = ComputeList(stats_local', stats_remote', Hashes(fs_local),
                           Hashes(fs_remote), ignore_time, content,
                           modify_window).list
    /\ pc' = IF ComputeList(stats_local', stats_remote', Hashes(fs_local),
                            Hashes(fs_remote), ignore_time, content,
                            modify_window).raised
             THEN "raised" ELSE "computed"
    /\ UNCHANGED <<confVars, passes, copyVars, codecVars, runVars, tasks>>

\* Repo.collect() on the local repo
Walk ==
    /\ pc = "new"
    /\ stats_local' = Collect(fs_local, exclude, include, rel_path)
    /\ pc' = "collected"
    /\ UNCHANGED <<confVars, stats_remote, list, passes, copyVars, codecVars, runVars, tasks>>

Next == Compute

Spec == Init /\ [][Next]_vars

SpecCmp == InitCmp /\ [][Next]_vars

NextWalk == Walk

SpecWalk == InitWalk /\ [][NextWalk]_vars

-----------------------------------------------------------------------------
(* Properties of Diff.compute. *)

\* the positions of the list that hold an item for path p
ItemsFor(p) == {i \in 1..Len(list) : list[i][1] = p}

\* the list holds exactly one item for p, with this operation and witness
OneItem(p, op, stat) ==
    /\ Cardinality(ItemsFor(p)) = 1
    /\ \A i \in ItemsFor(p) : list[i][3] = op /\ list[i][2] = stat

\* the whole seconds by which the local entry of p is newer than the remote one
Gap(p) == IntOfHalves(Mtime(stats_local[p]) - Mtime(stats_remote[p]))

\* the time verdict for a gap, and the entry it names
Verdict(gap) == IF gap > 0 THEN "push" ELSE "pull"
Newer(p) == IF Gap(p) > 0 THEN stats_local[p] ELSE stats_remote[p]

BothSides(p) == <<stats_local[p], stats_remote[p]>>
SameKind(p) == Kind(stats_local[p]) = Kind(stats_remote[p])
SameSize(p) == Size(stats_local[p]) = Size(stats_remote[p])
BothDirs(p) == Kind(stats_local[p]) = "d" /\ Kind(stats_remote[p]) = "d"

\* C1: when compute returns, every path only in the local map has exactly
\* one item, a 'push' whose witness is the local entry, and every path only
\* in the remote map has exactly one item, a 'pull' whose witness is the
\* remote entry.
C1_OneSidedPaths ==
    pc = "computed" =>
        /\ \A p \in DOMAIN stats_local \ DOMAIN stats_remote :
               OneItem(p, "push", stats_local[p])
        /\ \A p \in DOMAIN stats_remote \ DOMAIN stats_local :
               OneItem(p, "pull", stats_remote[p])

C1_Witness ==
    /\ pc = "computed"
    /\ PathAB \in DOMAIN stats_local \ DOMAIN stats_remote
    /\ PathB \in DOMAIN stats_remote \ DOMAIN stats_local
    /\ Len(list) >= 2

\* C2: with ignore_time off and a whole-second time difference beyond the
\* modify window, a path present on both sides (not two directories) gets
\* one item: 'push' when the local entry is newer, 'pull' when the remote
\* one is, whatever the kinds, sizes and contents.
C2_TimeVerdictFirst ==
    (pc # "new" /\ ~ignore_time /\ ~BothDirs(PathF)
       /\ Abs(Gap(PathF)) > modify_window)
    => /\ pc = "computed"
       /\ OneItem(PathF, Verdict(Gap(PathF)), Newer(PathF))

C2_Witness ==
    /\ pc = "computed" /\ ~ignore_time
    /\ Gap(PathF) < 0 /\ Abs(Gap(PathF)) > modify_window
    /\ ~SameKind(PathF) /\ ~SameSize(PathF)
    /\ OneItem(PathF, "pull", stats_remote[PathF])

\* C3 as stated: two entries of equal kind and size (not directories) whose
\* mtimes are whole seconds d apart, content off, ignore_time off: no item
\* when |d| <= modify_window, one item with the time verdict when
\* |d| > modify_window.
C3_WindowInclusive ==
    (pc # "new" /\ ~ignore_time /\ ~content
       /\ SameKind(PathF) /\ SameSize(PathF) /\ ~BothDirs(PathF)
       /\ Mtime(stats_local[PathF]) % 2 = 0 /\ Mtime(stats_remote[PathF]) % 2 = 0)
    => /\ pc = "computed"
       /\ Abs(Gap(PathF)) <= modify_window => ItemsFor(PathF) = {}
       /\ Abs(Gap(PathF)) > modify_window
            => OneItem(PathF, Verdict(Gap(PathF)), Newer(PathF))

\* C4 as stated: kinds differ and the time step does not emit (the gap is 0
\* or inside the window, however its boundary is read, or ignore_time is
\* on with any gap): one item, 'type', whose witness is the pair.
C4_TypeWheneverNoTimeItem ==
    (pc # "new" /\ ~SameKind(PathF)
       /\ (ignore_time \/ Gap(PathF) = 0 \/ Abs(Gap(PathF)) < modify_window))
    => /\ pc = "computed"
       /\ OneItem(PathF, "type", BothSides(PathF))

\* C4 as amended: kinds differ.  With a gap of 0 or strictly inside the
\* window the item is 'type' with the pair as witness; with ignore_time on
\* and a gap beyond the window the item carries the time verdict and the
\* newer entry.
C4_TypeOrVerdict ==
    (pc # "new" /\ ~SameKind(PathF))
    => /\ pc = "computed"
       /\ Cardinality(ItemsFor(PathF)) = 1
       /\ (Gap(PathF) = 0 \/ Abs(Gap(PathF)) < modify_window)
            => OneItem(PathF, "type", BothSides(PathF))
       /\ (ignore_time /\ Abs(Gap(PathF)) > modify_window)
            => OneItem(PathF, Verdict(Gap(PathF)), Newer(PathF))

C4_Witness ==
    /\ pc = "computed" /\ ~SameKind(PathF)
    /\ ignore_time /\ Gap(PathF) > modify_window
    /\ OneItem(PathF, "push", stats_local[PathF])

\* C5 as stated: equal kind (not directories), different sizes, and the time
\* step does not emit: compute returns one item, 'size', whose witness is
\* the pair.
C5_SizeItem ==
    (pc # "new" /\ SameKind(PathF) /\ ~BothDirs(PathF) /\ ~SameSize(PathF)
       /\ (ignore_time \/ Abs(Gap(PathF)) <= modify_window))
    => /\ pc = "computed"
       /\ OneItem(PathF, "size", BothSides(PathF))

\* C6 as stated: equal time after the window, equal kind and size.  With
\* content off there is no item; with content on (both files readable)
\* there is an item, 'content' with the pair as witness, exactly when the
\* hashes differ.
C6_ContentStep ==
    (pc # "new" /\ Abs(Gap(PathF)) <= modify_window
       /\ SameKind(PathF) /\ SameSize(PathF))
    => /\ ~content => pc = "computed" /\ ItemsFor(PathF) = {}
       /\ (content /\ fs_local[PathF].hash # 0 /\ fs_remote[PathF].hash # 0)
            => /\ pc = "computed"
               /\ IF fs_local[PathF].hash # fs_remote[PathF].hash
                  THEN OneItem(PathF, "content", BothSides(PathF))
                  ELSE ItemsFor(PathF) = {}

\* the operation of the item for p in a list
OpIn(l, p) == l[CHOOSE i \in 1..Len(l) : l[i][1] = p][3]
PathsIn(l) == {l[i][1] : i \in 1..Len(l)}
Exchanged(op) == IF op = "push" THEN "pull" ELSE IF op = "pull" THEN "push" ELSE op

\* C7: the diff of a tree against itself, under any options, is the empty
\* list; compute fails to return only when content is on and a file cannot
\* be read.
C7_SelfDiffEmpty ==
    (pc # "new" /\ fs_local = fs_remote)
    => /\ pc = "computed" => list = <<>>
       /\ pc = "raised" =>
            content /\ \E p \in DOMAIN stats_local : fs_local[p].hash = 0
                                                     /\ Kind(stats_local[p]) # "d"

C7_Witness ==
    /\ pc = "computed" /\ fs_local = fs_remote /\ list = <<>>
    /\ content /\ ignore_time
    /\ PathAB \in DOMAIN stats_local /\ Kind(stats_local[PathAB]) = "f"

\* C8: the diff with the two sides exchanged returns when this one does,
\* holds the same set of paths, and for each path the operation with push
\* and pull exchanged and content, type, size unchanged.
C8_Antisymmetric ==
    pc # "new" =>
        LET back == ComputeList(stats_remote, stats_local,
                                Hashes(fs_remote), Hashes(fs_local),
                                ignore_time, content, modify_window)
        IN  /\ back.raised <=> pc = "raised"
            /\ pc = "computed" =>
                 /\ PathsIn(back.list) = PathsIn(list)
                 /\ Len(back.list) = Len(list)
                 /\ \A p \in PathsIn(list) :
                        OpIn(back.list, p) = Exchanged(OpIn(list, p))

C8_Witness ==
    /\ pc = "computed"
    /\ \E i, j \in 1..Len(list) : list[i][3] = "pull" /\ list[j][3] = "content"

\* positions i..j of the list are in strictly ascending order of path
Ascending(i, j) == \A m \in i..(j - 1) : StrLess(list[m][1], list[m + 1][1])

\* C9 as stated: the returned list is in ascending order of path over the
\* whole list.
C9_SortedWhole == pc = "computed" => Ascending(1, Len(list))

\* C9 as amended: the returned list is the items of the local map's paths in
\* ascending order of path, followed by the 'pull' items of the paths only
\* in the remote map in ascending order of path.
C9_SortedInTwoRuns ==
    pc = "computed" =>
        \E k \in 0..Len(list) :
            /\ Ascending(1, k)
            /\ Ascending(k + 1, Len(list))
            /\ \A i \in 1..k : list[i][1] \in DOMAIN stats_local
            /\ \A i \in (k + 1)..Len(list) :
                   list[i][1] \in DOMAIN stats_remote \ DOMAIN stats_local

\* a local-only path sorts after a remote-only one
C9_Witness ==
    /\ pc = "computed"
    /\ Len(list) = 3
    /\ list[1][1] = PathA /\ list[2][1] = PathB /\ list[3][1] = PathAB
    /\ list[2][3] = "push" /\ list[3][3] = "pull"

-----------------------------------------------------------------------------
(* Properties of the walk. *)

\* the last n components of a path joined by '/'
LastComponents(q, n) ==
    LET comps == SplitOn(q, "/")
    IN  JoinWith(SubSeq(comps, Len(comps) - n + 1, Len(comps)), "/")

\* what C10 says a pattern without wildcards rejects: anchored, the path
\* equal to it counted from the root; unanchored with N slashes, every path
\* whose last N + 1 components equal it
Rejects(pattern, q) ==
    LET pat == RStripSlash(pattern)
        n == Count(pat, "/") + 1
    IN  IF Head(pat) = "/" THEN q = Tail(pat)
        ELSE Count(q, "/") + 1 >= n /\ LastComponents(q, n) = pat

\* q is the base of the walk or lies beneath it
InWalk(q) == rel_path = Dot \/ q = rel_path \/ StartsWith(q, rel_path \o Slash)

\* the paths from the base of the walk down to q, the root left out
DownTo(q) ==
    {r \in DOMAIN fs_local : r # Dot /\ InWalk(r) /\ (r = q \/ StartsWith(q, r \o Slash))}

\* C10: the walk returns the paths at or beneath its base, less those that
\* a pattern rejects (or the reserved '.synkrotron'), and less what lies
\* beneath a rejected path or beneath a symbolic link, which the walk does
\* not enter.
C10_FixedExcludes ==
    pc = "collected" =>
        DOMAIN stats_local =
            {q \in DOMAIN fs_local :
                /\ rel_path \in DOMAIN fs_local
                /\ InWalk(q)
                /\ \A r \in DownTo(q) :
                      /\ r # Str_synkrotron
                      /\ \A i \in 1..Len(exclude) : ~Rejects(exclude[i], r)
                      /\ r # q /\ r # rel_path => Kind(fs_local[r].stat) = "d"}

\* the unanchored "a" rejects "b/a" and "a" while "b" is kept
C10_Witness ==
    /\ pc = "collected" /\ rel_path = Dot /\ exclude = <<PathA>>
    /\ {PathA, Str_a_a, PathB, Str_b_a} \subseteq DOMAIN fs_local
    /\ Kind(fs_local[PathB].stat) = "d"
    /\ DOMAIN stats_local \cap WalkPaths = {PathB}

-----------------------------------------------------------------------------
(* Walks with include patterns. *)

Str_ab == <<"a", "b">>
Str_ab_a == <<"a", "b", "/", "a">>

\* the paths of the trees walked with include patterns: "ab" shares a
\* string prefix with "a" without lying beneath it
InclPaths == {PathA, Str_ab, PathB, PathAB, Str_ab_a, Str_b_a, Str_a_b_a}

\* the trees over InclPaths: a path with entries beneath it is a directory,
\* any other path is a file, or (leafdir) an empty directory
InclTrees ==
    LET closed == {S \in SUBSET InclPaths :
                     \A q \in S : DirName(q) = <<>> \/ DirName(q) \in S}
        NodeAt(S, q, leafdir) ==
            IF Beneath(S, q) = {} /\ ~leafdir THEN Node("f", 0, 0, 1)
            ELSE DirNode
    IN  {[q \in S \cup {Dot} |-> IF q = Dot THEN DirNode ELSE NodeAt(S, q, leafdir)] :
            S \in closed, leafdir \in BOOLEAN}

\* include lists: one pattern, a deeper one, one with a leading slash, and
\* two patterns in either order
InclPatterns == {<<PathA>>, <<PathAB>>, <<Slash \o PathB>>, <<Str_b_a>>,
                 <<PathA, PathAB>>, <<PathAB, PathA>>, <<Str_ab, PathB>>}

\* one tree walked from its root or from a path in it, with or without
\* include patterns and with at most one exclude pattern
InitIncl ==
    /\ fs_local \in InclTrees
    /\ fs_remote = TreeOf({<<Dot, DirNode>>})
    /\ exclude \in {<<>>, <<PathB>>, <<Slash \o PathAB>>}
    /\ include \in InclPatterns \cup {<<>>}
    /\ rel_path \in {Dot, PathA, PathAB}
    /\ ignore_time = FALSE
    /\ content = FALSE
    /\ modify_window = 0
    /\ InitNoClear
    /\ InitDiff

SpecIncl == InitIncl /\ [][NextWalk]_vars

\* an exclude pattern of the repo matches the path
ExcludeMatches(q) ==
    \E i \in 1..Len(RepoExclude(exclude)) : Match(q, RepoExclude(exclude)[i])

\* an include pattern matches the path in full
IncludeMatchesFully(q) ==
    \E i \in 1..Len(RepoInclude(include)) :
        Match(q, Slash \o RepoInclude(include)[i])

\* an include pattern matches the path, in full or cut to the path's depth
IncludeMatches(q) ==
    \E i \in 1..Len(RepoInclude(include)) :
        Match(q, Slash \o PartialPattern(RepoInclude(include)[i], Count(q, "/")))

\* the paths q lies beneath, component by component
Ancestors(q) == {r \in DOMAIN fs_local : r # Dot /\ StartsWith(q, r \o Slash)}

\* the entries the walk visits: those whose directory it returned
Visited ==
    {q \in DOMAIN fs_local \ {Dot} :
        Parent(q) \in DOMAIN stats_local /\ Kind(fs_local[Parent(q)].stat) = "d"}

\* C11 as stated: with include patterns, a visited entry is admitted exactly
\* when no exclude pattern matches it and either an include pattern matches
\* it (in full or partially) or it lies beneath a directory that an include
\* pattern matched in full; sharing a string prefix with such a directory
\* does not admit it.
C11_IncludeAdmission ==
    (pc = "collected" /\ include # <<>>) =>
        \A q \in Visited :
            q \in DOMAIN stats_local <=>
                /\ ~ExcludeMatches(q)
                /\ \/ IncludeMatches(q)
                   \/ \E r \in Ancestors(q) : IncludeMatchesFully(r)

-----------------------------------------------------------------------------
(* Walks with wildcard exclude patterns. *)

\* exclude patterns with one wildcard, anchored and not
GlobPatterns == {<<"/", "a", "*", "b">>, <<"/", "a", "?", "b">>, <<"/", "*", "a">>,
                 <<"/", "b", "*">>, <<"/", "a", "/", "*">>, <<"/", "?">>,
                 <<"*">>, <<"a", "/", "*">>, <<"?", "/", "a">>}

\* one tree walked from its root with one wildcard exclude pattern
InitGlob ==
    /\ fs_local \in WalkTrees
    /\ fs_remote = TreeOf({<<Dot, DirNode>>})
    /\ exclude \in {<<x>> : x \in GlobPatterns}
    /\ include = <<>>
    /\ rel_path = Dot
    /\ ignore_time = FALSE
    /\ content = FALSE
    /\ modify_window = 0
    /\ InitNoClear
    /\ InitDiff

SpecGlob == InitGlob /\ [][NextWalk]_vars

\* s and t have the same length and agree wherever t has no '?'
Agree(s, t) ==
    Len(s) = Len(t) /\ \A i \in 1..Len(s) : t[i] = "?" \/ s[i] = t[i]

\* a pattern with at most one '*' matches a name: without '*', the name
\* agrees with it; with '*', the name begins with what precedes the '*' and
\* ends with what follows it, any characters (the separator too) between
GlobMatches(name, pat) ==
    LET stars == {i \in 1..Len(pat) : pat[i] = "*"}
        at == IF stars = {} THEN 0 ELSE CHOOSE i \in stars : TRUE
        pre == SubSeq(pat, 1, at - 1)
        suf == SubSeq(pat, at + 1, Len(pat))
    IN  IF stars = {} THEN Agree(name, pat)
        ELSE /\ Len(name) >= Len(pre) + Len(suf)
             /\ Agree(SubSeq(name, 1, Len(pre)), pre)
             /\ Agree(SubSeq(name, Len(name) - Len(suf) + 1, Len(name)), suf)

\* a wildcard pattern rejects a path: anchored, the whole path matches it;
\* unanchored with N slashes, the last N + 1 components match it
GlobRejects(pattern, q) ==
    IF Head(pattern) = "/" THEN GlobMatches(q, Tail(pattern))
    ELSE /\ Count(q, "/") >= Count(pattern, "/")
         /\ GlobMatches(LastComponents(q, Count(pattern, "/") + 1), pattern)

\* C12 as stated: an anchored exclude pattern with k slashes rejects no
\* visited entry whose path has more than k slashes.
C12_AnchoredDepth ==
    pc = "collected" =>
        \A q \in Visited : \A i \in 1..Len(exclude) :
            (Head(exclude[i]) = "/"
                /\ Count(q, "/") > Count(Tail(exclude[i]), "/"))
            => q \in DOMAIN stats_local

\* C12 as amended: '?' stands for one character and '*' for any run of
\* characters, the separator '/' being a character as any other; the walk
\* returns the paths that no pattern rejects in this sense, less
\* '.synkrotron' and less what lies beneath a rejected path or a link.
C12_WildcardsCrossSeparators ==
    pc = "collected" =>
        DOMAIN stats_local =
            {q \in DOMAIN fs_local :
                \A r \in DownTo(q) :
                    /\ r # Str_synkrotron
                    /\ \A i \in 1..Len(exclude) : ~GlobRejects(exclude[i], r)
                    /\ r # q => Kind(fs_local[r].stat) = "d"}

\* the anchored "a*b" has no slash and rejects "a/b" and "a/a/b", leaving "a"
C12_Witness ==
    /\ pc = "collected" /\ exclude = <<<<"/", "a", "*", "b">>>>
    /\ {PathA, PathAB, Str_a_a, Str_a_a_b} \subseteq DOMAIN fs_local
    /\ DOMAIN stats_local \cap {PathA, PathAB, Str_a_a, Str_a_a_b} = {PathA, Str_a_a}

\* C13 as stated: in the map a walk returns, every key but "." has "." or
\* another key as its parent.
C13_ParentsBelowRoot ==
    pc = "collected" =>
        \A q \in DOMAIN stats_local \ {Dot} :
            Parent(q) = Dot \/ Parent(q) \in DOMAIN stats_local

\* C13 as amended: every key but the base of the walk (the normalized
\* rel_path) has its parent among the keys; the base is a key whenever the
\* map is not empty.
C13_ParentsBelowBase ==
    pc = "collected" =>
        /\ \A q \in DOMAIN stats_local \ {NormPath(rel_path)} :
               Parent(q) \in DOMAIN stats_local
        /\ stats_local # <<>> => NormPath(rel_path) \in DOMAIN stats_local

\* a walk from "a/b" returns "a/b" and "a/b/a" without "a"
C13_Witness ==
    /\ pc = "collected" /\ rel_path = PathAB
    /\ DOMAIN stats_local = {PathAB, Str_a_b_a}
    /\ PathA \in DOMAIN fs_local

-----------------------------------------------------------------------------
(* main: the encrypted pass and the passes over the clear paths, for a     *)
(* remote with a key that is reached as a local directory.  The remote     *)
(* trees are the mounted (decrypted) views.                                *)

\* exclude_local of main: the clear paths, anchored, added to the excludes
ExcludeLocal(excl, clear) ==
    IF clear = <<>> THEN excl
    ELSE excl \o [i \in 1..Len(clear) |-> Slash \o clear[i]]

\* a clear path without its leading slash
StripSlash(clear_path) ==
    IF StartsWith(clear_path, Slash) THEN Tail(clear_path) ELSE clear_path

\* the loop body of main over the clear paths, up to the choice of
\* rel_clear_path: the pass is made on the clear path, made on rel_path,
\* omitted, or the clear path is refused
ClearRelPath(rel, clear_path) ==
    IF StartsWith(NormPath(clear_path), <<".", ".">>) THEN [kind |-> "raise"]
    ELSE IF rel # Dot /\ ~StartsWith(StripSlash(NormPath(clear_path)), rel)
      THEN IF StartsWith(rel, StripSlash(NormPath(clear_path)))
             THEN [kind |-> "pass", rel |-> rel]
           ELSE [kind |-> "skip"]
    ELSE [kind |-> "pass", rel |-> StripSlash(NormPath(clear_path))]

\* what process_command leaves after a Diff over rel was computed: its list
\* after those of the earlier passes
Processed(acc, rel, r) ==
    [list |-> acc.list \o r.list,
     passes |-> Append(acc.passes, rel),
     raised |-> r.raised]

\* one turn of the loop over the clear paths
ClearPass(crp, acc, fl, fc, excl, incl, ig, ct, window) ==
    IF crp.kind = "skip" THEN acc
    ELSE IF crp.kind = "raise" THEN [acc EXCEPT !.raised = TRUE]
    ELSE Processed(acc, crp.rel,
                   ComputeList(Collect(fl, excl, incl, crp.rel),
                               Collect(fc, excl, incl, crp.rel),
                               Hashes(fl), Hashes(fc), ig, ct, window))

RECURSIVE ClearPasses(_, _, _, _, _, _, _, _, _, _)
\* the loop of main over the clear paths; an exception ends it
ClearPasses(clear, acc, rel, fl, fc, excl, incl, ig, ct, window) ==
    IF clear = <<>> \/ acc.raised THEN acc
    ELSE ClearPasses(Tail(clear),
                     ClearPass(ClearRelPath(rel, Head(clear)), acc,
                               fl, fc, excl, incl, ig, ct, window),
                     rel, fl, fc, excl, incl, ig, ct, window)

\* main for the command 'diff': the pass over the encrypted tree, then the
\* passes over the clear paths
MainPasses(sl, sr) ==
    ClearPasses(clear_paths,
                Processed([list |-> <<>>, passes |-> <<>>], rel_path,
                          ComputeList(sl, sr, Hashes(fs_local), Hashes(fs_remote),
                                      ignore_time, content, modify_window)),
                rel_path, fs_local, fs_clear, exclude, include,
                ignore_time, content, modify_window)

\* main(): the command 'diff' on a remote with a key
MainDiff ==
    /\ pc = "new"
    /\ stats_local' = Collect(fs_local, ExcludeLocal(exclude, clear_paths),
                              include, rel_path)
    /\ stats_remote' = Collect(fs_remote, exclude, include, rel_path)
    /\ list' = MainPasses(stats_local', stats_remote').list
    /\ passes' = MainPasses(stats_local', stats_remote').passes
    /\ pc' = IF MainPasses(stats_local', stats_remote').raised
             THEN "raised" ELSE "computed"
    /\ UNCHANGED <<confVars, copyVars, codecVars, runVars, tasks>>

\* the clear options: one path, two paths, one with a trailing slash
ClearOptions == {<<Str_ab>>, <<PathA>>, <<PathAB>>, <<PathB, Str_ab>>,
                 <<PathA \o Slash>>}

\* the trees under the remote's 'clear' directory
ClearTrees == {TreeOf({<<Dot, DirNode>>}),
               TreeOf({<<Dot, DirNode>>, <<Str_ab, Node("f", 0, 0, 1)>>}),
               TreeOf({<<Dot, DirNode>>, <<PathA, DirNode>>,
                       <<PathAB, Node("f", 0, 0, 1)>>})}

\* main called on a local tree for a remote with clear paths, with or
\* without a --path
InitMain ==
    /\ fs_local \in InclTrees
    /\ fs_remote \in {TreeOf({<<Dot, DirNode>>}),
                      TreeOf({<<Dot, DirNode>>, <<PathB, Node("f", 0, 0, 1)>>})}
    /\ fs_clear \in ClearTrees
    /\ clear_paths \in ClearOptions
    /\ exclude = <<>>
    /\ include = <<>>
    /\ rel_path \in {Dot, PathA, Str_ab, PathAB}
    /\ ignore_time = FALSE
    /\ content = FALSE
    /\ modify_window = 0
    /\ fs_delta = <<>>
    /\ InitDiff


NextMain == MainDiff

SpecMain == InitMain /\ [][NextMain]_vars

\* q is p or lies beneath p, component by component
Within(q, p) == p = Dot \/ q = p \/ StartsWith(q, p \o Slash)

\* C14 as stated: with a path given, every path in the lists of the
\* encrypted pass and of the clear passes is that path or lies beneath it.
C14_WithinPath ==
    pc = "computed" =>
        \A i \in 1..Len(list) : Within(list[i][1], rel_path)

-----------------------------------------------------------------------------
(* Diff.push, Diff.pull and Diff._copy.  rsync is modelled as copying the  *)
(* listed paths with their attributes ("-a" with "--files-from" does not   *)
(* recurse), creating missing parent directories ("-R") and skipping a     *)
(* file that is newer at the destination ("-u").  The remote and the delta *)
(* directory are plain local directories.                                  *)

\* rev_operation of _copy
RevOperation(operation) == IF operation = "push" THEN "pull" ELSE "push"

\* a tree without one path
RemovePath(fs, p) == [q \in DOMAIN fs \ {p} |-> fs[q]]

\* the delete step for one item, removing under simulate too
DeleteItem_ignoringSimulate(st, f, rev, simulate) ==
    IF st.raised \/ f[3] # rev THEN st
    ELSE IF f[1] \notin DOMAIN st.fs THEN [st EXCEPT !.raised = TRUE]
    ELSE IF IsDirEntry(st.fs, f[1]) /\ Children(st.fs, f[1]) # {}
      THEN [st EXCEPT !.raised = TRUE]
    ELSE [fs |-> RemovePath(st.fs, f[1]),
          deleted |-> Append(st.deleted, f[1]),
          raised |-> FALSE]

\* the delete step for one item: os.rmdir on what os.path.isdir takes for
\* a directory (it raises unless that is an empty directory), os.remove on
\* anything else
DeleteItem(st, f, rev, simulate) ==
    IF st.raised \/ f[3] # rev \/ simulate THEN st
    ELSE IF f[1] \notin DOMAIN st.fs THEN [st EXCEPT !.raised = TRUE]
    ELSE IF IsDirEntry(st.fs, f[1]) /\ Children(st.fs, f[1]) # {}
      THEN [st EXCEPT !.raised = TRUE]
    ELSE [fs |-> RemovePath(st.fs, f[1]),
          deleted |-> Append(st.deleted, f[1]),
          raised |-> FALSE]

RECURSIVE DeleteStep_forward(_, _, _, _, _)
\* "for f in self.list": the last i items, from the first of them on
DeleteStep_forward(l, i, st, rev, simulate) ==
    IF i = 0 THEN st
    ELSE DeleteStep_forward(l, i - 1,
                            DeleteItem(st, l[Len(l) - i + 1], rev, simulate),
                            rev, simulate)

RECURSIVE DeleteStep(_, _, _, _, _)
\* "for f in reversed(self.list)": the items from position i down to 1
DeleteStep(l, i, st, rev, simulate) ==
    IF i = 0 THEN st
    ELSE DeleteStep(l, i - 1, DeleteItem(st, l[i], rev, simulate), rev, simulate)

\* the content step for one item: os.remove of the destination file
ContentItem(st, f, simulate) ==
    IF st.raised \/ f[3] # "content" \/ simulate THEN st
    ELSE IF f[1] \notin DOMAIN st.fs \/ Kind(st.fs[f[1]].stat) = "d"
      THEN [st EXCEPT !.raised = TRUE]
    ELSE [st EXCEPT !.fs = RemovePath(st.fs, f[1])]

RECURSIVE ContentStep(_, _, _, _)
\* "for f in self.list" of the content step: the items from position i on
ContentStep(l, i, st, simulate) ==
    IF i > Len(l) THEN st
    ELSE ContentStep(l, i + 1, ContentItem(st, l[i], simulate), simulate)

\* the delete step and the content step of _copy, both on the tree at dst:
\* the tree afterwards, the paths the delete step removed, and whether an
\* os call raised
CopySteps(l, operation, simulate, delete, ct, dst) ==
    ContentStep(l, IF ct THEN 1 ELSE Len(l) + 1,
                DeleteStep(l, IF delete THEN Len(l) ELSE 0,
                           [fs |-> dst, deleted |-> <<>>, raised |-> FALSE],
                           RevOperation(operation), simulate),
                simulate)

\* a file list of the items of the operation itself only
FileList_sameDirection(l, operation) ==
    LET kept == SelectSeq(l, LAMBDA f : f[3] = operation)
    IN  [i \in 1..Len(kept) |-> kept[i][1]]

\* file_list of _copy
FileList(l, operation) ==
    LET kept == SelectSeq(l, LAMBDA f : f[3] # RevOperation(operation))
    IN  [i \in 1..Len(kept) |-> kept[i][1]]

\* rsync for one listed path
RsyncOne(src, dst, p) ==
    IF p \notin DOMAIN src THEN dst
    ELSE IF /\ p \in DOMAIN dst
            /\ Kind(dst[p].stat) = "f" /\ Kind(src[p].stat) = "f"
            /\ Mtime(dst[p].stat) > Mtime(src[p].stat)
      THEN dst
    ELSE IF /\ p \in DOMAIN dst
            /\ Kind(dst[p].stat) = "d" /\ Kind(src[p].stat) # "d"
            /\ Children(dst, p) # {}
      THEN dst
    ELSE [q \in DOMAIN dst \cup {p} \cup {r \in DOMAIN src : StartsWith(p, r \o Slash)} |->
            IF q = p THEN src[p]
            ELSE IF q \in DOMAIN dst THEN dst[q]
            ELSE src[q]]

RECURSIVE Rsync(_, _, _)
\* rsync -ahuR --files-from=- . dst, run in src
Rsync(src, dst, files) ==
    IF files = <<>> THEN dst
    ELSE Rsync(src, RsyncOne(src, dst, Head(files)), Tail(files))

\* the invocations of rsync by _copy: none when file_list is empty
RsyncCalls(files, simulate, dst) ==
    IF files = <<>> THEN <<>>
    ELSE <<[dry_run |-> simulate, dst |-> dst, files |-> files]>>

\* the tree rsync leaves at its destination
RsyncResult(src, dst, files, simulate) ==
    IF simulate THEN dst ELSE Rsync(src, dst, files)

Str_config == Str_synkrotron \o <<"/", "c", "o", "n", "f", "i", "g">>

\* push with a delta directory, after _copy: the configuration is written
\* into the delta directory; os.mkdir raises if '.synkrotron' exists
WriteDeltaConfig(fd, write_delta_config) ==
    IF ~write_delta_config THEN [fs |-> fd, raised |-> FALSE]
    ELSE IF Str_synkrotron \in DOMAIN fd THEN [fs |-> fd, raised |-> TRUE]
    ELSE [fs |-> [q \in DOMAIN fd \cup {Str_synkrotron, Str_config} |->
                    IF q = Str_synkrotron THEN DirNode
                    ELSE IF q = Str_config THEN Node("f", 1, 0, 1)
                    ELSE fd[q]],
          raised |-> FALSE]

\* _copy(operation='push') and what push does after it, given the outcome
\* of the delete and content steps
PushAfter(steps, l, fl, fd, simulate, delta, write_delta_config) ==
    IF steps.raised
    THEN [fs_remote |-> steps.fs, fs_delta |-> fd, deleted |-> steps.deleted,
          rsync |-> <<>>, raised |-> TRUE]
    ELSE IF delta
    THEN [fs_remote |-> steps.fs,
          fs_delta |-> WriteDeltaConfig(
                           RsyncResult(fl, fd, FileList(l, "push"), simulate),
                           write_delta_config).fs,
          deleted |-> steps.deleted,
          rsync |-> RsyncCalls(FileList(l, "push"), simulate, "delta"),
          raised |-> WriteDeltaConfig(
                           RsyncResult(fl, fd, FileList(l, "push"), simulate),
                           write_delta_config).raised]
    ELSE [fs_remote |-> RsyncResult(fl, steps.fs, FileList(l, "push"), simulate),
          fs_delta |-> fd,
          deleted |-> steps.deleted,
          rsync |-> RsyncCalls(FileList(l, "push"), simulate, "remote"),
          raised |-> FALSE]

\* Diff.push(simulate, delete, delta, write_delta_config) once the list is
\* computed
PushResult(l, fl, fr, fd, ct, simulate, delete, delta, write_delta_config) ==
    PushAfter(CopySteps(l, "push", simulate, delete, ct, fr),
              l, fl, fd, simulate, delta, write_delta_config)

\* _copy(operation='pull') given the outcome of the delete and content steps
PullAfter(steps, l, fr, simulate) ==
    IF steps.raised
    THEN [fs_local |-> steps.fs, deleted |-> steps.deleted,
          rsync |-> <<>>, raised |-> TRUE]
    ELSE [fs_local |-> RsyncResult(fr, steps.fs, FileList(l, "pull"), simulate),
          deleted |-> steps.deleted,
          rsync |-> RsyncCalls(FileList(l, "pull"), simulate, "local"),
          raised |-> FALSE]

\* Diff.pull(simulate, delete) once the list is computed
PullResult(l, fl, fr, ct, simulate, delete) ==
    PullAfter(CopySteps(l, "pull", simulate, delete, ct, fl), l, fr, simulate)

\* a file, the same file a second newer, and a file of another content
CopyFiles == {Node("f", 0, 0, 1), Node("f", 0, 2, 1), Node("f", 0, 0, 2)}

\* the trees over ".", "a", "a/b" and "b" that the copy operations start
\* from: "a" is a file or a directory, "a/b" a file or a directory, "b" a
\* directory
CopyTrees ==
    LET subA == {{}} \cup {{<<PathA, n>>} : n \in CopyFiles}
                \cup {{<<PathA, DirNode>>}}
                \cup {{<<PathA, DirNode>>, <<PathAB, n>>} :
                          n \in CopyFiles \cup {DirNode}}
        subB == {{}, {<<PathB, DirNode>>}}
    IN  {TreeOf({<<Dot, DirNode>>} \cup x \cup y) : x \in subA, y \in subB}

\* two directories to synchronise and an empty delta directory
InitCopy ==
    /\ fs_local \in CopyTrees
    /\ fs_remote \in CopyTrees
    /\ exclude = <<>>
    /\ include = <<>>
    /\ rel_path = Dot
    /\ ignore_time \in BOOLEAN
    /\ content \in BOOLEAN
    /\ modify_window = 0
    /\ clear_paths = <<>>
    /\ fs_clear = <<>>
    /\ fs_delta = TreeOf({<<Dot, DirNode>>})
    /\ InitDiff

\* Diff.push(simulate, delete, delta, write_delta_config)
Push ==
    /\ pc = "computed"
    /\ \E simulate \in BOOLEAN, delete \in BOOLEAN, delta \in BOOLEAN,
          write_delta_config \in BOOLEAN :
        /\ call' = [op |-> "push", simulate |-> simulate, delete |-> delete,
                    delta |-> delta, write_delta_config |-> write_delta_config,
                    fs_local |-> fs_local, fs_remote |-> fs_remote,
                    fs_delta |-> fs_delta]
        /\ fs_remote' = PushResult(list, fs_local, fs_remote, fs_delta, content,
                            simulate, delete, delta, write_delta_config).fs_remote
        /\ fs_delta' = PushResult(list, fs_local, fs_remote, fs_delta, content,
                            simulate, delete, delta, write_delta_config).fs_delta
        /\ deleted' = PushResult(list, fs_local, fs_remote, fs_delta, content,
                            simulate, delete, delta, write_delta_config).deleted
        /\ rsync' = PushResult(list, fs_local, fs_remote, fs_delta, content,
                            simulate, delete, delta, write_delta_config).rsync
        /\ pc' = IF PushResult(list, fs_local, fs_remote, fs_delta, content,
                            simulate, delete, delta, write_delta_config).raised
                 THEN "copy_raised" ELSE "copied"
    /\ UNCHANGED <<fs_local, exclude, include, rel_path, ignore_time, content,
                   modify_window, clear_paths, fs_clear, stats_local,
                   stats_remote, list, passes, codecVars, runVars, tasks>>

\* Diff.pull(simulate, delete)
Pull ==
    /\ pc = "computed"
    /\ \E simulate \in BOOLEAN, delete \in BOOLEAN :
        /\ call' = [op |-> "pull", simulate |-> simulate, delete |-> delete,
                    delta |-> FALSE, write_delta_config |-> FALSE,
                    fs_local |-> fs_local, fs_remote |-> fs_remote,
                    fs_delta |-> fs_delta]
        /\ fs_local' = PullResult(list, fs_local, fs_remote, content,
                                  simulate, delete).fs_local
        /\ deleted' = PullResult(list, fs_local, fs_remote, content,
                                 simulate, delete).deleted
        /\ rsync' = PullResult(list, fs_local, fs_remote, content,
                               simulate, delete).rsync
        /\ pc' = IF PullResult(list, fs_local, fs_remote, content,
                               simulate, delete).raised
                 THEN "copy_raised" ELSE "copied"
    /\ UNCHANGED <<fs_remote, fs_delta, exclude, include, rel_path, ignore_time,
                   content, modify_window, clear_paths, fs_clear, stats_local,
                   stats_remote, list, passes, codecVars, runVars, tasks>>

NextCopy == Compute \/ Push \/ Pull

SpecCopy == InitCopy /\ [][NextCopy]_vars

-----------------------------------------------------------------------------
(* Properties of Diff.push and Diff.pull. *)

\* a call of push or pull has returned without raising
Copied(op) == pc = "copied" /\ call.op = op

\* C15: after a push with delete that is not simulated and has no delta
\* directory, a walk of the remote with the same filters yields the paths
\* and entries of the walk of the local directory
C15_PushDeleteMirrors ==
    (Copied("push") /\ ~call.simulate /\ call.delete /\ ~call.delta)
        => Collect(fs_remote, exclude, include, rel_path) = stats_local

\* C16: the delete step of push removes a remote path only if the path does
\* not exist locally, and the delete step of pull removes a local path only
\* if the path does not exist at the remote
C16_DeletesOneSidedOnly ==
    /\ (pc \in {"copied", "copy_raised"} /\ call.op = "push")
           => \A p \in Range(deleted) : p \notin DOMAIN call.fs_local
    /\ (pc \in {"copied", "copy_raised"} /\ call.op = "pull")
           => \A p \in Range(deleted) : p \notin DOMAIN call.fs_remote

\* a call of push or pull with simulate has ended
Simulated == pc \in {"copied", "copy_raised"} /\ call.simulate

\* the delta directory with the configuration push writes into it
WithConfig(fd) ==
    [q \in DOMAIN fd \cup {Str_synkrotron, Str_config} |->
        IF q = Str_synkrotron THEN DirNode
        ELSE IF q = Str_config THEN Node("f", 1, 0, 1)
        ELSE fd[q]]

C18_DeltaKeepsRemote ==
    (pc \in {"copied", "copy_raised"} /\ call.op = "push" /\ call.delta)
        => fs_remote = call.fs_remote

-----------------------------------------------------------------------------
(* Remote.encrypt_names, Remote.decrypt_names and Remote._map_names.  The  *)
(* helper (encfsctl encode / decode) maps one component per line; encode  *)
(* is one-to-one and decode is its inverse.  A name can be the clear name  *)
(* of one file and the encrypted name of another: "b" is both.             *)

MaxBatch == 2    \* paths in one call of encrypt_names or decrypt_names

\* the components of the clear names
ClearComps == {<<"a">>, <<"b">>}

\* encfsctl encode on one component
EncodeComp(c) ==
    IF c = <<"a">> THEN <<"b">> ELSE IF c = <<"b">> THEN <<"c">> ELSE <<"d">>

\* encfsctl decode on the encrypted name of a clear component
DecodeComp(c) == CHOOSE d \in ClearComps : EncodeComp(d) = c

\* the helper on one component
HelperComp(command, c) ==
    IF command = "encode" THEN EncodeComp(c) ELSE DecodeComp(c)

\* cache_index of _map_names
CacheIndex(command) == IF command = "decrypt" THEN 0 ELSE 1

\* self._cache[i] (the tuple of Python counts from 0)
CacheAt(cch, i) == cch[i + 1]

RECURSIVE Flatten(_)
\* "c for fn in filenames for c in fn"
Flatten(fns) ==
    IF fns = <<>> THEN <<>> ELSE Head(fns) \o Flatten(Tail(fns))

\* uncached of _map_names
Uncached(fns, cch, ci) ==
    SelectSeq(Flatten(fns), LAMBDA c : c \notin DOMAIN CacheAt(cch, ci))

\* str(output).split('\n') where the helper wrote k lines, each ended by a
\* newline: the lines for the first components asked for, any further line
\* empty, and the empty string after the last newline
HelperLines(command, uncached, k) ==
    [i \in 1..k |-> IF i <= Len(uncached) THEN HelperComp(command, uncached[i])
                    ELSE <<>>] \o <<<<>>>>

\* d[key] = value
DictSet(d, key, value) ==
    [x \in DOMAIN d \cup {key} |-> IF x = key THEN value ELSE d[x]]

\* the body of the loop over zip(uncached, lines)
CacheInsert(cch, ci, c, m) ==
    IF ci = 0
    THEN <<DictSet(cch[1], c, m), DictSet(cch[2], m, c)>>
    ELSE <<DictSet(cch[1], m, c), DictSet(cch[2], c, m)>>

RECURSIVE CacheFill(_, _, _, _, _)
\* the loop over zip(uncached, lines), from position i on
CacheFill(cch, ci, uncached, lines, i) ==
    IF i > Len(uncached) \/ i > Len(lines) THEN cch
    ELSE CacheFill(CacheInsert(cch, ci, uncached[i], lines[i]), ci,
                   uncached, lines, i + 1)

\* the return statement of _map_names: a KeyError for a component that is
\* not in the cache
MapReturn(fns, cch, ci) ==
    IF \E i \in 1..Len(fns) : \E j \in 1..Len(fns[i]) :
           fns[i][j] \notin DOMAIN CacheAt(cch, ci)
    THEN [result |-> <<>>, cache |-> cch, raised |-> TRUE]
    ELSE [result |-> [i \in 1..Len(fns) |->
                        JoinWith([j \in 1..Len(fns[i]) |->
                                    CacheAt(cch, ci)[fns[i][j]]], "/")],
          cache |-> cch, raised |-> FALSE]

\* _map_names(command, filenames) where the helper, if it is run, writes k
\* lines
MapNames(command, filenames, cch, k) ==
    IF filenames = <<>> THEN [result |-> <<>>, cache |-> cch, raised |-> FALSE]
    ELSE MapReturn([i \in 1..Len(filenames) |-> SplitOn(filenames[i], "/")],
                   IF Uncached([i \in 1..Len(filenames) |-> SplitOn(filenames[i], "/")],
                               cch, CacheIndex(command)) = <<>>
                   THEN cch
                   ELSE CacheFill(cch, CacheIndex(command),
                                  Uncached([i \in 1..Len(filenames) |->
                                               SplitOn(filenames[i], "/")],
                                           cch, CacheIndex(command)),
                                  HelperLines(command,
                                      Uncached([i \in 1..Len(filenames) |->
                                                   SplitOn(filenames[i], "/")],
                                               cch, CacheIndex(command)), k),
                                  1),
                   CacheIndex(command))

\* the number of components _map_names hands to the helper
Requested(command, filenames, cch) ==
    Len(Uncached([i \in 1..Len(filenames) |-> SplitOn(filenames[i], "/")],
                 cch, CacheIndex(command)))

\* the clear paths and the encrypted paths of the calls
ClearPaths == {<<"a">>, <<"b">>, <<"a", "/", "b">>}

EncryptedPaths == {<<"b">>, <<"c">>, <<"b", "/", "c">>}

\* the batches of at most MaxBatch paths
Batches(paths) == UNION {[1..n -> paths] : n \in 0..MaxBatch}

\* the record of a call: its arguments, what the helper did (whether it was
\* run, its exit status, the number of lines asked for and written), what
\* the call returned, the cache before it, and whether every helper run so
\* far succeeded
MappedRecord(op, command, filenames, status, k) ==
    [op |-> op, filenames |-> filenames,
     invoked |-> Requested(command, filenames, cache) > 0,
     status |-> status,
     requested |-> Requested(command, filenames, cache),
     lines |-> k,
     result |-> MapNames(command, filenames, cache, k).result,
     raised |-> MapNames(command, filenames, cache, k).raised,
     before |-> cache,
     clean |-> mapped.clean /\ (Requested(command, filenames, cache) > 0
                                  => status = 0 /\ k = Requested(command, filenames, cache))]

\* the helper exits with any status and writes any number of lines up to
\* one more than asked for; a helper that is not run has status 0 and
\* writes nothing.  The cache is followed up to the first run of the
\* helper that fails.
HelperRun(command, filenames, status, k) ==
    /\ mapped.clean
    /\ k \in 0..(Requested(command, filenames, cache) + 1)
    /\ Requested(command, filenames, cache) = 0 => status = 0 /\ k = 0

\* Remote.encrypt_names(filenames)
EncryptNames ==
    \E filenames \in Batches(ClearPaths), status \in {0, 1}, k \in 0..(2 * MaxBatch + 1) :
        /\ HelperRun("encode", filenames, status, k)
        /\ cache' = MapNames("encode", filenames, cache, k).cache
        /\ mapped' = MappedRecord("encrypt", "encode", filenames, status, k)
        /\ UNCHANGED <<confVars, stats_local, stats_remote, list, pc, passes,
                       copyVars, runVars, tasks>>

\* Remote.decrypt_names(filenames)
DecryptNames ==
    \E filenames \in Batches(EncryptedPaths), status \in {0, 1}, k \in 0..(2 * MaxBatch + 1) :
        /\ HelperRun("decode", filenames, status, k)
        /\ cache' = MapNames("decode", filenames, cache, k).cache
        /\ mapped' = MappedRecord("decrypt", "decode", filenames, status, k)
        /\ UNCHANGED <<confVars, stats_local, stats_remote, list, pc, passes,
                       copyVars, runVars, tasks>>

\* a remote with a key and an empty cache
InitCodec ==
    /\ fs_local = TreeOf({<<Dot, DirNode>>})
    /\ fs_remote = TreeOf({<<Dot, DirNode>>})
    /\ exclude = <<>>
    /\ include = <<>>
    /\ rel_path = Dot
    /\ ignore_time = FALSE
    /\ content = FALSE
    /\ modify_window = 0
    /\ InitNoClear
    /\ InitDiff

NextCodec == EncryptNames \/ DecryptNames

SpecCodec == InitCodec /\ [][NextCodec]_vars

-----------------------------------------------------------------------------
(* Properties of the name cache. *)

\* _map_names with a helper that succeeds
MapNamesOk(command, filenames, cch) ==
    MapNames(command, filenames, cch, Requested(command, filenames, cch))

\* mapping a batch with the first command and the result with the second
\* command, on the present cache, gives the batch back
RoundTrip(first, second, filenames) ==
    /\ ~MapNamesOk(first, filenames, cache).raised
    /\ ~MapNamesOk(second, MapNamesOk(first, filenames, cache).result,
                   MapNamesOk(first, filenames, cache).cache).raised
    /\ MapNamesOk(second, MapNamesOk(first, filenames, cache).result,
                  MapNamesOk(first, filenames, cache).cache).result = filenames

\* C19: after any calls of encrypt_names and decrypt_names whose helper
\* runs succeeded, decrypt(encrypt(paths)) = paths for every batch of clear
\* paths and encrypt(decrypt(paths)) = paths for every batch of encrypted
\* paths
C19_RoundTrip ==
    mapped.clean =>
        /\ \A b \in Batches(ClearPaths) : RoundTrip("encode", "decode", b)
        /\ \A b \in Batches(EncryptedPaths) : RoundTrip("decode", "encode", b)

\* C20: a call whose helper run exits non-zero or writes a number of lines
\* other than the number of components asked for fails with an error and
\* leaves both directions of the cache as they were before the call
C20_FailedHelperKeepsCache ==
    (/\ mapped.op \in {"encrypt", "decrypt"}
     /\ mapped.invoked
     /\ mapped.status # 0 \/ mapped.lines # mapped.requested)
        => mapped.raised /\ cache = mapped.before

-----------------------------------------------------------------------------
(* main: the command 'push' on a remote with a key and clear paths.  The   *)
(* encrypted pass pushes into the mounted remote, each clear pass into the *)
(* remote's 'clear' directory.                                             *)

\* diff.push(simulate=False, delete=delete) of process_command, without a
\* delta directory, for the computed list of r
PushOf(r, fl, fr, ct, delete) ==
    PushResult(r.list, fl, fr, <<>>, ct, FALSE, delete, FALSE, FALSE)

\* the invocations of rsync with their destination named
CallsTo(calls, dst) == [i \in 1..Len(calls) |-> [calls[i] EXCEPT !.dst = dst]]

\* what process_command leaves after the Diff r over rel was computed and
\* pushed with the outcome p
PushedPass(acc, rel, r, p, dst) ==
    IF r.raised THEN [acc EXCEPT !.raised = TRUE]
    ELSE [fs |-> p.fs_remote,
          rsync |-> acc.rsync \o CallsTo(p.rsync, dst),
          deleted |-> acc.deleted \o p.deleted,
          list |-> acc.list \o r.list,
          passes |-> Append(acc.passes, rel),
          raised |-> p.raised]

\* process_command for a clear pass whose list is computed
ClearPushed(acc, rel, r, fl, ct, delete) ==
    PushedPass(acc, rel, r, PushOf(r, fl, acc.fs, ct, delete), "clear")

\* one turn of the loop over the clear paths, for the command 'push'
ClearPush(crp, acc, fl, excl, incl, ig, ct, window, delete) ==
    IF crp.kind = "skip" THEN acc
    ELSE IF crp.kind = "raise" THEN [acc EXCEPT !.raised = TRUE]
    ELSE ClearPushed(acc, crp.rel,
                     ComputeList(Collect(fl, excl, incl, crp.rel),
                                 Collect(acc.fs, excl, incl, crp.rel),
                                 Hashes(fl), Hashes(acc.fs), ig, ct, window),
                     fl, ct, delete)

RECURSIVE ClearPushes(_, _, _, _, _, _, _, _, _, _)
\* the loop of main over the clear paths for the command 'push'; an
\* exception ends it
ClearPushes(clear, acc, rel, fl, excl, incl, ig, ct, window, delete) ==
    IF clear = <<>> \/ acc.raised THEN acc
    ELSE ClearPushes(Tail(clear),
                     ClearPush(ClearRelPath(rel, Head(clear)), acc,
                               fl, excl, incl, ig, ct, window, delete),
                     rel, fl, excl, incl, ig, ct, window, delete)

\* the encrypted pass of main for the command 'push'
EncryptedPush(delete) ==
    PushedPass([fs |-> fs_remote, rsync |-> <<>>, deleted |-> <<>>,
                list |-> <<>>, passes |-> <<>>, raised |-> FALSE],
               rel_path,
               ComputeList(Collect(fs_local, ExcludeLocal(exclude, clear_paths),
                                   include, rel_path),
                           Collect(fs_remote, exclude, include, rel_path),
                           Hashes(fs_local), Hashes(fs_remote),
                           ignore_time, content, modify_window),
               PushOf(ComputeList(Collect(fs_local, ExcludeLocal(exclude, clear_paths),
                                          include, rel_path),
                                  Collect(fs_remote, exclude, include, rel_path),
                                  Hashes(fs_local), Hashes(fs_remote),
                                  ignore_time, content, modify_window),
                      fs_local, fs_remote, content, delete),
               "remote")

\* the clear passes of main for the command 'push', after the encrypted
\* pass enc
ClearPushesAfter(enc, delete) ==
    IF enc.raised THEN enc
    ELSE ClearPushes(clear_paths, [enc EXCEPT !.fs = fs_clear], rel_path,
                     fs_local, exclude, include, ignore_time, content,
                     modify_window, delete)

\* main(): the command 'push' on a remote with a key
MainPush ==
    /\ pc = "new"
    /\ \E delete \in BOOLEAN :
        /\ call' = [op |-> "main_push", simulate |-> FALSE, delete |-> delete,
                    delta |-> FALSE, write_delta_config |-> FALSE,
                    fs_local |-> fs_local, fs_remote |-> fs_remote,
                    fs_delta |-> fs_clear]
        /\ fs_remote' = EncryptedPush(delete).fs
        /\ fs_clear' = IF EncryptedPush(delete).raised THEN fs_clear
                       ELSE ClearPushesAfter(EncryptedPush(delete), delete).fs
        /\ rsync' = ClearPushesAfter(EncryptedPush(delete), delete).rsync
        /\ deleted' = ClearPushesAfter(EncryptedPush(delete), delete).deleted
        /\ list' = ClearPushesAfter(EncryptedPush(delete), delete).list
        /\ passes' = ClearPushesAfter(EncryptedPush(delete), delete).passes
        /\ pc' = IF ClearPushesAfter(EncryptedPush(delete), delete).raised
                 THEN "raised" ELSE "pushed"
    /\ UNCHANGED <<fs_local, exclude, include, rel_path, ignore_time, content,
                   modify_window, clear_paths, stats_local, stats_remote,
                   fs_delta, codecVars, runVars, tasks>>

\* the local trees of the pushes: the files "a/b", "ab" and "b", any of
\* them present or not
PushTrees ==
    {TreeOf({<<Dot, DirNode>>, <<PathA, DirNode>>} \cup x) :
        x \in SUBSET {<<PathAB, Node("f", 0, 0, 1)>>,
                      <<Str_ab, Node("f", 0, 0, 1)>>,
                      <<PathB, Node("f", 0, 0, 1)>>}}

\* main called with the command 'push' for a remote with clear paths, with
\* or without a --path
InitMainPush ==
    /\ fs_local \in PushTrees
    /\ fs_remote = TreeOf({<<Dot, DirNode>>})
    /\ fs_clear \in ClearTrees
    /\ clear_paths \in ClearOptions
    /\ exclude = <<>>
    /\ include = <<>>
    /\ rel_path \in {Dot, PathA, Str_ab, PathAB}
    /\ ignore_time = FALSE
    /\ content = FALSE
    /\ modify_window = 0
    /\ fs_delta = <<>>
    /\ InitDiff

NextMainPush == MainPush

SpecMainPush == InitMainPush /\ [][NextMainPush]_vars

\* q is a declared clear path or lies beneath one
Declared(q) ==
    \E i \in 1..Len(clear_paths) :
        Within(q, StripSlash(NormPath(clear_paths[i])))

\* C21: a push stores a local file under the remote's 'clear' directory
\* only if the file's path is a declared clear path or lies beneath one
C21_ClearHoldsDeclaredOnly ==
    pc = "pushed" =>
        \A i \in 1..Len(rsync) :
            rsync[i].dst = "clear" =>
                \A j \in 1..Len(rsync[i].files) :
                    (/\ rsync[i].files[j] \in DOMAIN fs_local
                     /\ Kind(fs_local[rsync[i].files[j]].stat) = "f")
                        => Declared(rsync[i].files[j])

-----------------------------------------------------------------------------
(* Remote.mount and Remote.umount.  A Remote has a host or is local, has a *)
(* key or not, and has a mount point or not.  Its mount points are the     *)
(* directories '<name>-sshfs' and '<name>-encfs' of the sync directory,    *)
(* each absent, a directory or a mounted directory, and the mount point,   *)
(* absent, a symbolic link or a file.  sshfs, encfs and fusermount succeed *)
(* or fail.                                                                *)

\* the outcome of a call that returned
Returned(r) == [r |-> r, raised |-> FALSE, msg |-> "none"]

\* the outcome of a call that raised
Raised(r, msg) == [r |-> r, raised |-> TRUE, msg |-> msg]

\* the last step of mount: the mount point and mount_path
MountLink(r) ==
    IF r.mount_point /\ r.link = "file"
    THEN Raised(r, "mount point exists but is not a link")
    ELSE Returned([r EXCEPT !.link = IF r.mount_point THEN "link" ELSE @,
                            !.mount_path = TRUE])

\* the encfs step of mount and what follows it
MountEncfs(r, encfs_ok) ==
    IF r.key /\ r.encfs # "mounted"
    THEN IF encfs_ok THEN MountLink([r EXCEPT !.encfs = "mounted"])
         ELSE Raised([r EXCEPT !.encfs = "dir"], "unable to mount with encfs")
    ELSE MountLink(r)

\* the sshfs step of mount and what follows it
MountSshfs(r, sshfs_ok, encfs_ok) ==
    IF r.host /\ r.sshfs # "mounted"
    THEN IF sshfs_ok THEN MountEncfs([r EXCEPT !.sshfs = "mounted"], encfs_ok)
         ELSE Raised([r EXCEPT !.sshfs = "dir"], "unable to mount with sshfs")
    ELSE MountEncfs(r, encfs_ok)

\* Remote.mount()
MountResult(r, sshfs_ok, encfs_ok) ==
    IF r.mount_path THEN Raised(r, "already mounted")
    ELSE MountSshfs(r, sshfs_ok, encfs_ok)

\* fuse_umount('sshfs') and an end of umount that leaves mount_path set
UmountSshfs_keepsMountPath(r, sshfs_ok) ==
    IF r.host /\ r.sshfs # "absent"
    THEN IF r.sshfs = "mounted" /\ ~sshfs_ok THEN Raised(r, "TypeError")
         ELSE Returned([r EXCEPT !.sshfs = "absent"])
    ELSE Returned(r)

\* fuse_umount('sshfs') and the end of umount
UmountSshfs(r, sshfs_ok) ==
    IF r.host /\ r.sshfs # "absent"
    THEN IF r.sshfs = "mounted" /\ ~sshfs_ok THEN Raised(r, "TypeError")
         ELSE Returned([r EXCEPT !.sshfs = "absent", !.mount_path = FALSE])
    ELSE Returned([r EXCEPT !.mount_path = FALSE])

\* fuse_umount('encfs') without os.rmdir, and what follows it
UmountEncfs_keepsDir(r, sshfs_ok, encfs_ok) ==
    IF r.key /\ r.encfs # "absent"
    THEN IF r.encfs = "mounted" /\ ~encfs_ok THEN Raised(r, "TypeError")
         ELSE UmountSshfs([r EXCEPT !.encfs = "dir"], sshfs_ok)
    ELSE UmountSshfs(r, sshfs_ok)

\* fuse_umount('encfs') and what follows it
UmountEncfs(r, sshfs_ok, encfs_ok) ==
    IF r.key /\ r.encfs # "absent"
    THEN IF r.encfs = "mounted" /\ ~encfs_ok THEN Raised(r, "TypeError")
         ELSE UmountSshfs([r EXCEPT !.encfs = "absent"], sshfs_ok)
    ELSE UmountSshfs(r, sshfs_ok)

\* Remote.umount(), where fusermount succeeds or fails on each directory
UmountResult(r, sshfs_ok, encfs_ok) ==
    IF r.mount_point /\ r.link = "absent" THEN Raised(r, "FileNotFoundError")
    ELSE UmountEncfs([r EXCEPT !.link = "absent"], sshfs_ok, encfs_ok)

\* the states of a directory of the sync directory
DirStates == {"absent", "dir", "mounted"}

\* the Remote objects just constructed, with the mount points an earlier
\* process may have left (a link it left points to an existing directory)
NewRemotes ==
    {r \in [host : BOOLEAN, key : BOOLEAN, mount_point : BOOLEAN,
            sshfs : DirStates, encfs : DirStates,
            link : {"absent", "link", "file"}, mount_path : {FALSE}] :
        /\ ~r.host => r.sshfs = "absent"
        /\ ~r.key => r.encfs = "absent"
        /\ ~r.mount_point => r.link = "absent"
        /\ (r.link = "link" /\ r.key) => r.encfs # "absent"
        /\ (r.link = "link" /\ ~r.key /\ r.host) => r.sshfs # "absent"}

\* the record of a call: the object before it, how it ended, and the last
\* call before it that returned
CallRecord(op, res) ==
    [op |-> op, before |-> remote, raised |-> res.raised, msg |-> res.msg,
     prev |-> rcall.last,
     last |-> IF res.raised THEN rcall.last ELSE op]

\* remote.mount()
Mount ==
    \E sshfs_ok \in BOOLEAN, encfs_ok \in BOOLEAN :
        /\ remote' = MountResult(remote, sshfs_ok, encfs_ok).r
        /\ rcall' = CallRecord("mount", MountResult(remote, sshfs_ok, encfs_ok))
        /\ UNCHANGED <<confVars, stats_local, stats_remote, list, pc, passes,
                       copyVars, codecVars, run, tasks>>

\* remote.umount()
Umount ==
    \E sshfs_ok \in BOOLEAN, encfs_ok \in BOOLEAN :
        /\ remote' = UmountResult(remote, sshfs_ok, encfs_ok).r
        /\ rcall' = CallRecord("umount", UmountResult(remote, sshfs_ok, encfs_ok))
        /\ UNCHANGED <<confVars, stats_local, stats_remote, list, pc, passes,
                       copyVars, codecVars, run, tasks>>

\* the trees and options of a specification that computes no diff
InitNoTrees ==
    /\ fs_local = TreeOf({<<Dot, DirNode>>})
    /\ fs_remote = TreeOf({<<Dot, DirNode>>})
    /\ exclude = <<>>
    /\ include = <<>>
    /\ rel_path = Dot
    /\ ignore_time = FALSE
    /\ content = FALSE
    /\ modify_window = 0
    /\ InitNoClear
    /\ InitIdle

\* one Remote just constructed
InitRemote ==
    /\ InitNoTrees
    /\ remote \in NewRemotes
    /\ rcall = [op |-> "none", prev |-> "none", last |-> "none"]
    /\ run = [pc |-> "none"]

NextRemote == Mount \/ Umount

SpecRemote == InitRemote /\ [][NextRemote]_vars

-----------------------------------------------------------------------------
(* Properties of Remote.mount and Remote.umount. *)

\* C28: for any sequence of mount() and umount() on one Remote, mount_path
\* is set exactly when the last call that returned was mount(); mount()
\* while mount_path is set raises 'already mounted' and changes nothing;
\* after an umount() that returned, the mount-point link and the sshfs and
\* encfs directories do not exist and mount() (with sshfs and encfs
\* working) succeeds
C28_MountLifecycle ==
    /\ remote.mount_path <=> rcall.last = "mount"
    /\ (rcall.op = "mount" /\ rcall.before.mount_path)
           => rcall.raised /\ rcall.msg = "already mounted"
              /\ remote = rcall.before
    /\ (rcall.op = "umount" /\ ~rcall.raised)
           => /\ remote.link = "absent"
              /\ remote.sshfs = "absent"
              /\ remote.encfs = "absent"
              /\ ~MountResult(remote, TRUE, TRUE).raised

\* a Remote with host, key and mount point was mounted, unmounted and is
\* mounted again
C28_Witness ==
    /\ rcall.op = "mount" /\ ~rcall.raised /\ rcall.prev = "umount"
    /\ remote.host /\ remote.key /\ remote.mount_point
    /\ remote.mount_path /\ remote.link = "link"
    /\ remote.sshfs = "mounted" /\ remote.encfs = "mounted"

-----------------------------------------------------------------------------
(* A run of main, step by step: the arguments are parsed, the              *)
(* configuration is read and the Remote constructed, the remote is mounted *)
(* (or unmounted, for the command 'umount'), the command is processed, the *)
(* remote is unmounted if --umount is given.  An exception at any step     *)
(* ends the run in the handler of main; SIGINT ends it by sys.exit(0).     *)

\* a run that has not begun: no exit code yet (-1)
NewRun ==
    [pc |-> "start", command |-> "none", umount |-> FALSE, errors |-> 0,
     exit |-> -1, fatal |-> FALSE, raised |-> FALSE, interrupted |-> FALSE,
     mounted |-> FALSE]

\* "except Exception as e: print('error: ' + str(e))", after which main
\* returns and the interpreter exits with status 0
Handled(r) ==
    [r EXCEPT !.pc = "done", !.errors = @ + 1, !.exit = 0,
              !.fatal = TRUE, !.raised = TRUE]

\* main returns
Finished(r) == [r EXCEPT !.pc = "done", !.exit = 0]

\* the position of the run after the step that ended as ok or raised
StepTo(r, raised, next) ==
    IF raised THEN Handled(r)
    ELSE IF next = "done" THEN Finished(r)
    ELSE [r EXCEPT !.pc = next]

\* what no step of a run changes
runFrame == <<confVars, stats_local, stats_remote, list, pc, passes,
              copyVars, codecVars, rcall, tasks>>

\* parse_args()
RunParse ==
    /\ run.pc = "start"
    /\ \E command \in {"init", "mount", "umount", "diff", "pull", "push"},
          umount \in BOOLEAN :
        run' = [run EXCEPT !.pc = "parsed", !.command = command,
                           !.umount = umount]
    /\ UNCHANGED <<runFrame, remote>>

\* Config.init_remote for the command 'init'; Config() and Remote(...) for
\* the others: each succeeds or raises
RunConfig ==
    /\ run.pc = "parsed"
    /\ \E ok \in BOOLEAN :
        run' = StepTo(run, ~ok,
                      IF run.command = "init" THEN "done" ELSE "configured")
    /\ UNCHANGED <<runFrame, remote>>

\* remote.umount() for the command 'umount', remote.mount() for the others
RunMount ==
    /\ run.pc = "configured"
    /\ \E sshfs_ok \in BOOLEAN, encfs_ok \in BOOLEAN :
        IF run.command = "umount"
        THEN /\ remote' = UmountResult(remote, sshfs_ok, encfs_ok).r
             /\ run' = StepTo(run, UmountResult(remote, sshfs_ok, encfs_ok).raised,
                              "done")
        ELSE /\ remote' = MountResult(remote, sshfs_ok, encfs_ok).r
             /\ run' = StepTo([run EXCEPT !.mounted =
                                  ~MountResult(remote, sshfs_ok, encfs_ok).raised],
                              MountResult(remote, sshfs_ok, encfs_ok).raised,
                              IF run.command = "mount" THEN "done" ELSE "mounted")
    /\ UNCHANGED runFrame

\* the options, the Repo objects and process_command for the encrypted
\* pass and the clear passes: all of it succeeds, or a step raises, or (for
\* pull and push) rsync fails, whose exit status _copy does not look at
RunProcess ==
    /\ run.pc = "mounted"
    /\ \E outcome \in {"ok", "raised", "rsync_failed"} :
        /\ outcome = "rsync_failed" => run.command \in {"pull", "push"}
        /\ run' = StepTo([run EXCEPT !.fatal = (outcome # "ok")],
                         outcome = "raised", "processed")
    /\ UNCHANGED <<runFrame, remote>>

\* "if args.umount: remote.umount()" and remote.save_cache()
RunUmount ==
    /\ run.pc = "processed"
    /\ \E sshfs_ok \in BOOLEAN, encfs_ok \in BOOLEAN :
        IF run.umount
        THEN /\ remote' = UmountResult(remote, sshfs_ok, encfs_ok).r
             /\ run' = StepTo(run, UmountResult(remote, sshfs_ok, encfs_ok).raised,
                              "done")
        ELSE /\ remote' = remote
             /\ run' = Finished(run)
    /\ UNCHANGED runFrame

\* SIGINT during the run: the handler calls sys.exit(0), and SystemExit is
\* not an Exception, so the handler of main does not see it
RunInterrupt ==
    /\ run.pc \in {"parsed", "configured", "mounted", "processed"}
    /\ run' = [run EXCEPT !.pc = "done", !.exit = 0, !.interrupted = TRUE]
    /\ UNCHANGED <<runFrame, remote>>

\* main is called for a remote whose mount points an earlier run may have
\* left
InitRun ==
    /\ InitNoTrees
    /\ remote \in NewRemotes
    /\ rcall = [op |-> "none"]
    /\ run = NewRun

NextRun ==
    RunParse \/ RunConfig \/ RunMount \/ RunProcess \/ RunUmount \/ RunInterrupt

SpecRun == InitRun /\ [][NextRun]_vars

-----------------------------------------------------------------------------
(* Properties of main. *)

\* C22: a run that ends with a fatal error prints one 'error:' line and
\* ends with a non-zero exit code; a run without a fatal error ends with
\* exit code 0
C22_ExitCodes ==
    run.pc = "done" =>
        /\ run.fatal => run.errors = 1 /\ run.exit # 0
        /\ ~run.fatal => run.exit = 0

\* the remote is unmounted and its mount points are removed
Unmounted ==
    /\ ~remote.mount_path
    /\ remote.link = "absent"
    /\ remote.sshfs = "absent"
    /\ remote.encfs = "absent"

\* a run of pull or push with --umount has ended after it mounted the
\* remote
UmountRunDone ==
    /\ run.pc = "done" /\ run.umount /\ run.mounted
    /\ run.command \in {"pull", "push"}

-----------------------------------------------------------------------------
(* The delete step of _copy under filters. *)

\* the exclude options of the delete step: none, the file or directory
\* "a/b", every "b"
DelExcludes == {<<>>, <<Slash \o PathAB>>, <<PathB>>}

\* two directories to synchronise under an exclude option
InitDel ==
    /\ fs_local \in CopyTrees
    /\ fs_remote \in CopyTrees
    /\ exclude \in DelExcludes
    /\ include = <<>>
    /\ rel_path = Dot
    /\ ignore_time = FALSE
    /\ content = FALSE
    /\ modify_window = 0
    /\ clear_paths = <<>>
    /\ fs_clear = <<>>
    /\ fs_delta = TreeOf({<<Dot, DirNode>>})
    /\ InitDiff

NextDel == Compute \/ Push \/ Pull

SpecDel == InitDel /\ [][NextDel]_vars

\* a call of push or pull with delete, not simulated, has ended
DeleteStepped ==
    /\ pc \in {"copied", "copy_raised"}
    /\ call.delete /\ ~call.simulate

\* the destination before the call and the walk of it
DstBefore == IF call.op = "push" THEN call.fs_remote ELSE call.fs_local

StatsDst == IF call.op = "push" THEN stats_remote ELSE stats_local

\* the delete step of the call
DeleteOutcome ==
    DeleteStep(list, Len(list),
               [fs |-> DstBefore, deleted |-> <<>>, raised |-> FALSE],
               RevOperation(call.op), FALSE)

\* no path is removed after a directory above it
DescendantsFirst ==
    \A i \in 1..Len(deleted) : \A j \in 1..Len(deleted) :
        StartsWith(deleted[j], deleted[i] \o Slash) => j < i

\* the listed paths of the delete step that it has not removed
Unremoved(fs) ==
    {i \in 1..Len(list) :
        list[i][3] = RevOperation(call.op) /\ list[i][1] \in DOMAIN fs}

\* the item whose removal raised: the last of the list not removed
Blocked(fs) == CHOOSE i \in Unremoved(fs) : \A j \in Unremoved(fs) : j <= i

\* C24 as stated: in the delete step, a descendant is removed before the
\* directory above it, and every directory is empty when its removal is
\* attempted (no removal raises), for any filters
C24_EmptyAtRemoval ==
    DeleteStepped => DescendantsFirst /\ ~DeleteOutcome.raised

\* C24, amended: in the delete step, a descendant is removed before the
\* directory above it, and a directory whose removal is attempted holds no
\* path that the walk of the destination returned: it is empty unless it
\* holds entries the filters kept out of the walk, and without filters it
\* is always empty
C24_NoListedPathLeft ==
    DeleteStepped =>
        /\ DescendantsFirst
        /\ deleted = DeleteOutcome.deleted
        /\ DeleteOutcome.raised =>
               /\ exclude # <<>> \/ include # <<>>
               /\ \A c \in Children(DeleteOutcome.fs,
                                    list[Blocked(DeleteOutcome.fs)][1]) :
                      c \notin DOMAIN StatsDst

\* a push with delete removed "a/b" and then the directory "a"
C24_Witness ==
    /\ DeleteStepped /\ call.op = "push" /\ pc = "copied"
    /\ deleted = <<PathAB, PathA>>
    /\ Kind(call.fs_remote[PathA].stat) = "d"

-----------------------------------------------------------------------------
(* The file list of _copy. *)

\* the positions of the list whose item is not of the opposite direction
NotOpposite == {i \in 1..Len(list) : list[i][3] # RevOperation(call.op)}

\* C25: when push or pull returns, rsync was invoked if and only if some
\* item of the list is not of the opposite direction, and then once, with
\* exactly the paths of those items (items of operation 'type' and
\* 'content' among them, in both directions)
C25_FileList ==
    (pc = "copied" /\ call.op \in {"push", "pull"}) =>
        /\ Len(rsync) = IF NotOpposite = {} THEN 0 ELSE 1
        /\ \A k \in 1..Len(rsync) :
              /\ Range(rsync[k].files) = {list[i][1] : i \in NotOpposite}
              /\ Len(rsync[k].files) = Cardinality(NotOpposite)

\* a pull returned whose list holds an item of operation 'type' or
\* 'content', which is in the file list, and an item of the operation
\* 'push', which is not
C25_Witness ==
    /\ pc = "copied" /\ call.op = "pull" /\ Len(rsync) = 1
    /\ \E i \in 1..Len(list) :
          /\ list[i][3] \in {"type", "content"}
          /\ list[i][1] \in Range(rsync[1].files)
    /\ \E i \in 1..Len(list) :
          /\ list[i][3] = "push"
          /\ list[i][1] \notin Range(rsync[1].files)


\* the helper's translation of a path, component by component
HelperPath(command, fn) ==
    JoinWith([j \in 1..Len(SplitOn(fn, "/")) |->
                HelperComp(command, SplitOn(fn, "/")[j])], "/")

\* C27: as long as every helper run succeeded, the first map of the cache
\* holds only pairs of an encrypted name and its clear name, the second only
\* pairs of a clear name and its encrypted name, each map is the inverse of
\* the other, and a call returned the helper's translation of its paths
C27_CacheDirections ==
    mapped.clean =>
        /\ \A e \in DOMAIN cache[1] :
              /\ cache[1][e] \in ClearComps
              /\ EncodeComp(cache[1][e]) = e
        /\ \A c \in DOMAIN cache[2] :
              /\ c \in ClearComps
              /\ cache[2][c] = EncodeComp(c)
        /\ \A e \in DOMAIN cache[1] :
              cache[1][e] \in DOMAIN cache[2] /\ cache[2][cache[1][e]] = e
        /\ \A c \in DOMAIN cache[2] :
              cache[2][c] \in DOMAIN cache[1] /\ cache[1][cache[2][c]] = c
        /\ mapped.op \in {"encrypt", "decrypt"} =>
              /\ ~mapped.raised
              /\ mapped.result =
                    [i \in 1..Len(mapped.filenames) |->
                        HelperPath(IF mapped.op = "encrypt" THEN "encode"
                                   ELSE "decode", mapped.filenames[i])]

-----------------------------------------------------------------------------
(* Repo._collect_remote for a remote with a key.  The remote host holds    *)
(* the tree under encrypted names; no encrypted name is a clear name, so   *)
(* the cache of _map_names answers as the helper does.                     *)

\* encfsctl encode and decode on one component: the empty component of an
\* anchored pattern and '.' are kept
EncfsComp(c) == IF c = <<>> \/ c = Dot THEN c ELSE <<"y">> \o c

DecfsComp(c) == IF c # <<>> /\ c[1] = "y" THEN Tail(c) ELSE c

\* one name of encrypt_names and of decrypt_names
EncfsPath(p) ==
    JoinWith([j \in 1..Len(SplitOn(p, "/")) |-> EncfsComp(SplitOn(p, "/")[j])], "/")

DecfsPath(p) ==
    JoinWith([j \in 1..Len(SplitOn(p, "/")) |-> DecfsComp(SplitOn(p, "/")[j])], "/")

\* the tree as the remote host holds it
EncTree(fs) ==
    [q \in {EncfsPath(p) : p \in DOMAIN fs} |-> fs[DecfsPath(q)]]

\* the patterns without wildcards
Fixed(patterns) ==
    SelectSeq(patterns, LAMBDA p : "*" \notin Range(p) /\ "?" \notin Range(p))

Str_encfs6 == <<"/", ".", "e", "n", "c", "f", "s", "6", ".", "x", "m", "l">>
Str_clear == <<"/", "c", "l", "e", "a", "r">>

\* exclude_encrypted and include_encrypted
ExcludeEncrypted(excl) ==
    [i \in 1..Len(Fixed(excl)) |-> EncfsPath(Fixed(excl)[i])]
        \o <<Str_encfs6, Str_clear>>

IncludeEncrypted(incl) ==
    [i \in 1..Len(Fixed(incl)) |-> EncfsPath(Fixed(incl)[i])]

\* stats_encrypted: the walk on the remote host, and the decrypted paths
StatsEncrypted(fs, excl, incl, rel) ==
    CollectLocal(EncTree(fs), RepoExclude(ExcludeEncrypted(excl)),
                 RepoInclude(IncludeEncrypted(incl)), EncfsPath(rel))

\* the body of the loop over zip(paths, stats_encrypted) once _ignore_files
\* has run for the path
RefilterStep(path, ign, st) ==
    IF ign.ignored # <<>>
    THEN [st EXCEPT !.excluded = @ \cup {path}, !.wl = ign.wl]
    ELSE [st EXCEPT !.stats = @ \cup {path}, !.wl = ign.wl]

\* the body of the loop for one path
RefilterOne(path, excl, incl, st) ==
    IF \E e \in st.excluded : StartsWith(path, e) THEN st
    ELSE RefilterStep(path,
                      IgnoreFiles(DirName(path), <<BaseName(path)>>, excl, incl,
                                  st.wl),
                      st)

RECURSIVE Refilter(_, _, _, _)
\* the loop over zip(paths, stats_encrypted)
Refilter(paths, excl, incl, st) ==
    IF paths = <<>> THEN st
    ELSE Refilter(Tail(paths), excl, incl,
                  RefilterOne(DecfsPath(Head(paths)), excl, incl, st))

\* Repo._collect_remote with self.exclude and self.include: the paths of
\* the dictionary it returns
CollectRemote(fs, excl, incl, rel) ==
    Refilter(StatsEncrypted(fs, excl, incl, rel), excl, incl,
             [stats |-> {}, excluded |-> {}, wl |-> {}]).stats

\* Repo.collect for a remote with a key that is not local
CollectEncrypted(fs, excl, incl, rel) ==
    [p \in CollectRemote(fs, RepoExclude(excl), RepoInclude(incl), rel)
       |-> EncTree(fs)[EncfsPath(p)].stat]

\* the trees: "a" is a directory when it holds "a/b", any other path a file
EncTrees ==
    {[q \in S \cup {Dot} |->
         IF q = Dot \/ (q = PathA /\ PathAB \in S) THEN DirNode
         ELSE Node("f", 0, 0, 1)] :
       S \in {S \in SUBSET {PathA, PathB, Str_ab, PathAB} :
                PathAB \in S => PathA \in S}}

\* exclude and include lists, fixed patterns and patterns with wildcards
EncExcludes == {<<>>, <<Slash \o PathA>>, <<PathB>>, <<<<"?">>>>,
                <<<<"a", "*">>>>, <<PathB, <<"a", "?">>>>}

EncIncludes == {<<>>, <<PathA>>, <<<<"a", "*">>>>, <<PathA, <<"b", "*">>>>,
                <<PathAB>>}

\* the local repo and the remote's plaintext view hold the same tree
InitEnc ==
    /\ fs_local \in EncTrees
    /\ fs_remote = fs_local
    /\ exclude \in EncExcludes
    /\ include \in EncIncludes
    /\ rel_path \in {Dot, PathA}
    /\ ignore_time = FALSE
    /\ content = FALSE
    /\ modify_window = 0
    /\ InitNoClear
    /\ InitDiff

\* Repo.collect() on the local repo and on the remote repo
WalkEncrypted ==
    /\ pc = "new"
    /\ stats_local' = Collect(fs_local, exclude, include, rel_path)
    /\ stats_remote' = CollectEncrypted(fs_remote, exclude, include, rel_path)
    /\ pc' = "collected"
    /\ UNCHANGED <<confVars, list, passes, copyVars, codecVars, runVars, tasks>>

NextEnc == WalkEncrypted

SpecEnc == InitEnc /\ [][NextEnc]_vars

\* C26: the walk of the encrypted remote returns, after decryption and
\* re-filtering, what the local walker returns on the plaintext tree
C26_EncryptedWalkAsLocal ==
    pc = "collected" => stats_remote = stats_local

-----------------------------------------------------------------------------
(* Walks over entries that cannot be statted, in the local process and     *)
(* through Repo._remote_call.  The remote process prints its warnings to   *)
(* sys.stdout and dumps the pickled result to sys.stdout.buffer; the       *)
(* caller unpickles everything the process wrote.                          *)

TextChunk == 2    \* warning lines that fill the text layer of sys.stdout

\* an entry for which info raises
Unstatable == Node("x", 0, 0, 0)

\* what the remote process has written when it exits: the text layer hands
\* its lines to sys.stdout.buffer each time they fill it, the dump goes to
\* sys.stdout.buffer, and the lines still in the text layer follow at exit
RemoteStdout(warnings) ==
    [i \in 1..((Len(warnings) \div TextChunk) * TextChunk) |-> "warning"]
        \o <<"pickle">>
        \o [i \in 1..(Len(warnings) % TextChunk) |-> "warning"]

\* pickle.loads(output) raises unless the output begins with the pickle;
\* what follows the pickle is not read
LoadsRaises(output) == output[1] # "pickle"

\* the record of a walk: the warnings printed, whether the walk went
\* through _remote_call, and whether it raised
CollectRecord(fs, paths, host) ==
    [op |-> "collect", host |-> host, warnings |-> Warned(fs, paths),
     raised |-> host /\ LoadsRaises(RemoteStdout(Warned(fs, paths)))]

\* Repo.collect() of a repo over a local directory
WalkLocal ==
    /\ pc = "new"
    /\ stats_local' = Collect(fs_local, exclude, include, rel_path)
    /\ call' = CollectRecord(fs_local,
                   CollectLocal(fs_local, RepoExclude(exclude),
                                RepoInclude(include), rel_path), FALSE)
    /\ pc' = "collected"
    /\ UNCHANGED <<confVars, stats_remote, list, passes, fs_delta, deleted,
                   rsync, codecVars, runVars, tasks>>

\* Repo.collect() of a repo over a remote with a host and no key: the
\* walk runs on the host over self.exclude and self.include
WalkRemote ==
    /\ pc = "new"
    /\ call' = CollectRecord(fs_remote,
                   CollectLocal(fs_remote, RepoExclude(RepoExclude(exclude)),
                                RepoInclude(RepoInclude(include)), rel_path), TRUE)
    /\ stats_remote' = IF call'.raised THEN stats_remote
                       ELSE Collect(fs_remote, RepoExclude(exclude),
                                    RepoInclude(include), rel_path)
    /\ pc' = IF call'.raised THEN "raised" ELSE "collected"
    /\ UNCHANGED <<confVars, stats_local, list, passes, fs_delta, deleted,
                   rsync, codecVars, runVars, tasks>>

\* the trees: "a" is absent, a file, unstatable or a directory that may
\* hold "a/b"; "a/b", "b" and "f" are absent, files or unstatable
StatTrees ==
    LET leaf == {Node("f", 0, 0, 1), Unstatable}
        subA == {{}} \cup {{<<PathA, n>>} : n \in leaf \cup {DirNode}}
                \cup {{<<PathA, DirNode>>, <<PathAB, n>>} : n \in leaf}
        sub(p) == {{}} \cup {{<<p, n>>} : n \in leaf}
    IN  {TreeOf({<<Dot, DirNode>>} \cup x \cup y \cup z) :
            x \in subA, y \in sub(PathB), z \in sub(PathF)}

\* the same tree on both sides, walked from its root or from "a", with or
\* without an exclude pattern
InitStat ==
    /\ fs_local \in StatTrees
    /\ fs_remote = fs_local
    /\ exclude \in {<<>>, <<PathB>>}
    /\ include = <<>>
    /\ rel_path \in {Dot, PathA}
    /\ ignore_time = FALSE
    /\ content = FALSE
    /\ modify_window = 0
    /\ InitNoClear
    /\ InitDiff

NextStat == WalkLocal \/ WalkRemote

SpecStat == InitStat /\ [][NextStat]_vars

\* the tree with a file in the place of every unstatable entry
Repaired(fs) ==
    [p \in DOMAIN fs |-> IF InfoRaises(fs, p) THEN Node("f", 0, 0, 1) ELSE fs[p]]

\* the walked tree, the dictionary returned and the base of the walk
WalkedTree == IF call.host THEN fs_remote ELSE fs_local
WalkedStats == IF call.host THEN stats_remote ELSE stats_local
BaseStatted ==
    NormPath(rel_path) \in DOMAIN WalkedTree
        => ~InfoRaises(WalkedTree, NormPath(rel_path))

\* C29: a walk, local or through the remote invocation, whose base can be
\* statted does not raise; it prints a warning for every admitted entry
\* that cannot be statted and returns every other admitted entry, that is
\* what the walk returns when these entries are files, without them
C29_StatFailureNeverAborts ==
    (call.op = "collect" /\ BaseStatted) =>
        /\ pc = "collected"
        /\ DOMAIN WalkedStats =
              {p \in DOMAIN Collect(Repaired(WalkedTree), exclude, include, rel_path) :
                  ~InfoRaises(WalkedTree, p)}
        /\ Range(call.warnings) =
              {p \in DOMAIN Collect(Repaired(WalkedTree), exclude, include, rel_path) :
                  InfoRaises(WalkedTree, p)}

\* C29 for the walks that do not go through the remote invocation

-----------------------------------------------------------------------------
(* Diff.compute as the threads run it: two workers walk the two repos, and *)
(* for every file compared by content the calling thread encrypts the name *)
(* and two workers hash the two files.  A Remote object owns its name      *)
(* cache; a repo's source is a path or a Remote object.                    *)

MaxCompared == 2    \* files on both sides that reach the content comparison

\* the arguments of Diff: repos over a path or over one of two Remote
\* objects, and an argument that is no Repo
DirSource == [kind |-> "dir"]
NoRepo == [kind |-> "other"]
RemoteSources ==
    {[kind |-> "remote", id |-> i, host |-> h, key |-> k] :
        i \in 1..2, h \in BOOLEAN, k \in BOOLEAN}
Sources == {DirSource, NoRepo} \cup RemoteSources

\* the two arguments name one Remote object only with the same fields
Consistent(a, b) ==
    (a.kind = "remote" /\ b.kind = "remote" /\ a.id = b.id) => a = b

\* a source with names translated whatever its host and key
UsesCodec_anyRemote(src) == src.kind = "remote"

\* the repo translates names: its source is a Remote that is not local and
\* has a key
UsesCodec(src) == src.kind = "remote" /\ src.host /\ src.key

\* the Remote object whose _cache a translation of the source works on
CacheOf(src) == src.id

\* the next position of a worker in Repo.collect
NextCollect(src, at) ==
    IF UsesCodec(src)
    THEN CASE at = "start" -> "encrypt"
           [] at = "encrypt" -> "call"
           [] at = "call" -> "decrypt"
           [] OTHER -> "done"
    ELSE IF at = "start" THEN "walk" ELSE "done"

\* the next position of a worker in Repo.file_hash
NextHash(src, at) ==
    IF UsesCodec(src)
    THEN CASE at = "start" -> "encrypt"
           [] at = "encrypt" -> "call"
           [] OTHER -> "done"
    ELSE IF at = "start" THEN "hash" ELSE "done"

\* what follows the walks and each comparison: the next file compared by
\* content, if there is one
AfterJoin(n) == IF content /\ n > 0 THEN "compare" ELSE "computed"

poolFrame == <<confVars, stats_local, stats_remote, list, pc, passes,
               copyVars, codecVars, runVars>>

\* Diff(repo_local, repo_remote)
NewDiff ==
    /\ tasks.phase = "none"
    /\ \E a \in Sources, b \in Sources, n \in 0..MaxCompared :
          /\ Consistent(a, b)
          /\ tasks' = IF a = NoRepo \/ b = NoRepo THEN [phase |-> "raised"]
                      ELSE [phase |-> "new", sources |-> <<a, b>>, files |-> n,
                            compared |-> 0, w |-> <<"idle", "idle">>]
    /\ UNCHANGED poolFrame

\* executor.map(Repo.collect, ...): the two walks are handed to the workers
ComputeStart ==
    /\ tasks.phase = "new"
    /\ tasks' = [tasks EXCEPT !.phase = "walk", !.w = <<"start", "start">>]
    /\ UNCHANGED poolFrame

\* a worker takes a step of its walk
WalkStep ==
    /\ tasks.phase = "walk"
    /\ \E i \in 1..2 :
          /\ tasks.w[i] # "done"
          /\ tasks' = [tasks EXCEPT !.w[i] = NextCollect(tasks.sources[i], @)]
    /\ UNCHANGED poolFrame

\* both walks returned: the executor is left
WalkJoin ==
    /\ tasks.phase = "walk"
    /\ tasks.w = <<"done", "done">>
    /\ tasks' = [tasks EXCEPT !.phase = AfterJoin(tasks.files),
                              !.w = <<"idle", "idle">>]
    /\ UNCHANGED poolFrame

\* _compare_stats reaches the content comparison: the calling thread
\* encrypts the name if the remote repo translates names
CompareEncrypt ==
    /\ tasks.phase = "compare"
    /\ tasks' = [tasks EXCEPT !.phase = IF UsesCodec(tasks.sources[2])
                                        THEN "main_encrypt" ELSE "submit"]
    /\ UNCHANGED poolFrame

\* the two hash computations are handed to the workers
HashSubmit ==
    /\ tasks.phase \in {"main_encrypt", "submit"}
    /\ tasks' = [tasks EXCEPT !.phase = "hash", !.w = <<"start", "start">>]
    /\ UNCHANGED poolFrame

\* a worker takes a step of its hash computation
HashStep ==
    /\ tasks.phase = "hash"
    /\ \E i \in 1..2 :
          /\ tasks.w[i] # "done"
          /\ tasks' = [tasks EXCEPT !.w[i] = NextHash(tasks.sources[i], @)]
    /\ UNCHANGED poolFrame

\* both hashes are computed: the executor is left
HashJoin ==
    /\ tasks.phase = "hash"
    /\ tasks.w = <<"done", "done">>
    /\ tasks' = [tasks EXCEPT !.phase = AfterJoin(tasks.files - tasks.compared - 1),
                              !.compared = @ + 1,
                              !.w = <<"idle", "idle">>]
    /\ UNCHANGED poolFrame

\* no Diff yet, content compared or not
InitPool ==
    /\ fs_local = TreeOf({<<Dot, DirNode>>})
    /\ fs_remote = TreeOf({<<Dot, DirNode>>})
    /\ exclude = <<>>
    /\ include = <<>>
    /\ rel_path = Dot
    /\ ignore_time = FALSE
    /\ content \in BOOLEAN
    /\ modify_window = 0
    /\ InitNoClear
    /\ InitDiff

NextPool ==
    \/ NewDiff
    \/ ComputeStart
    \/ WalkStep
    \/ WalkJoin
    \/ CompareEncrypt
    \/ HashSubmit
    \/ HashStep
    \/ HashJoin

SpecPool == InitPool /\ [][NextPool]_vars

\* worker i is inside encrypt_names or decrypt_names
Translating(i) ==
    tasks.phase \in {"walk", "hash"} /\ tasks.w[i] \in {"encrypt", "decrypt"}

\* the two workers are inside a translation on the cache of one Remote
SharedTranslation ==
    /\ Translating(1) /\ Translating(2)
    /\ CacheOf(tasks.sources[1]) = CacheOf(tasks.sources[2])

\* the two repos are over one Remote object that has a host and a key
OneKeyedRemote ==
    /\ tasks.phase \notin {"none", "raised"}
    /\ tasks.sources[1] = tasks.sources[2]
    /\ tasks.sources[1].kind = "remote"
    /\ tasks.sources[1].host /\ tasks.sources[1].key

\* C30 as stated: for every pair of repos Diff accepts, the two workers are
\* never inside a translation on the same name cache at the same time
C30_NoSharedTranslation == ~SharedTranslation

\* C30 as amended: unless the two repos are over one and the same Remote
\* object with a host and a key, the two workers are never inside a
\* translation on the same name cache at the same time
C30_NoSharedTranslationOfTwoSources == ~OneKeyedRemote => ~SharedTranslation

\* C30 with a local repo over a path, as main builds it: the worker of the
\* local repo never translates
C30_LocalWorkerNeverTranslates ==
    (tasks.phase \notin {"none", "raised"} /\ tasks.sources[1] = DirSource)
        => ~Translating(1)

\* the two workers are inside translations at the same time, each on the
\* cache of its own Remote
C30_Witness ==
    /\ Translating(1) /\ Translating(2)
    /\ ~OneKeyedRemote
    /\ tasks.sources[1].id # tasks.sources[2].id

====
